---- MODULE Spec2Model ----
(***************************************************************************)
(* A model of the concurrency-and-persistence core of Godis: the sharded   *)
(* dictionary's ordered multi-key locking, the per-database execution      *)
(* engine (routing, transactions, versions, lazy expiration) and the AOF   *)
(* persister.  The specifications of the module:                           *)
(*   SpecLock    callers of ConcurrentDict.RWLocks / RWUnLocks             *)
(*   SpecDB      connections, transactions and the expiration task         *)
(*   SpecTTL     plain commands on one key with a TTL                      *)
(*   SpecAof     SaveCmdLine, the writer task and a rewrite session        *)
(*   SpecReplay  SaveCmdLine and the writer task, replayed by LoadAof      *)
(***************************************************************************)
EXTENDS Integers, Sequences, FiniteSets, TLC

VARIABLES
    \* ---- ConcurrentDict shard locks (datastruct/dict) ----
    mutex,       \* shard index -> state of table[index].mutex (sync.RWMutex)
    lpc,         \* per task: position in RWLocks / RWUnLocks
    wkeys,       \* per task: the writeKeys argument of its RWLocks call
    rkeys,       \* per task: the readKeys argument of its RWLocks call
    li           \* per task: loop index into the sorted index list

lockVars == <<mutex, lpc, wkeys, rkeys, li>>

VARIABLES
    \* ---- one database (database.DB) and its clients ----
    db,          \* [data, ttlMap, versionMap]: the three dictionaries of the DB
    wheel,       \* key -> instant of the pending time-wheel task "expire:"+key
    clock,       \* time.Now()
    conn,        \* per connection: flags, queue, watching, txErrors
    reply,       \* the reply Exec returned last, and the connection it went to
    exec,        \* per task: the command (or job) it is running under locks
    dirty        \* per connection: another connection wrote a watched key

dbVars == <<db, wheel, clock, conn, reply, exec, dirty>>

VARIABLES
    \* ---- the AOF persister (aof.Persister) and the databases it logs ----
    persister,   \* [aofFsync, aofChan, currentDB, pausingAof]: fields of the Persister
    aofQueue,    \* the payloads buffered in the channel NewPersister made
    aofFile,     \* the lines of the file aofFilename, each ended by CRLF
    dbSet,       \* database index -> DB: the databases of persister.db
    task,        \* per caller and for the writer task: position and payload
    rewrite,     \* the rewrite session: position and locals of generateAof
    calls,       \* every SaveCmdLine call so far, in order of invocation
    frames,      \* per Write that reached aofFile: the call it served
    enq,         \* the calls whose payload entered the channel, in that order
    ioErrors,    \* how many aofFile.Write calls have failed
    closer       \* Persister.Close: its position, and what it has closed

aofVars ==
    <<persister, aofQueue, aofFile, dbSet, task, rewrite, calls, frames, enq, ioErrors, closer>>

VARIABLES
    \* ---- a ConcurrentDict under single-key calls ----
    dict         \* [m, mutex, count, call]: the shards' maps and locks, the
                 \* counter, and per task the call it is in

VARIABLES
    \* ---- the RESP parser on a byte stream ----
    stream       \* [pc, sent, buf, out]: the replies encoded into the reader,
                 \* the bytes not yet read, the payloads sent on the channel

VARIABLES
    \* ---- connections and their pool ----
    pool         \* [free, open, c, pooled, used]: the objects in connPool, the
                 \* connection in use, whether it came out of the pool and
                 \* whether its client has called a setter yet

VARIABLES
    \* ---- the TCP server and the protocol handler ----
    srv          \* the listener, the handler's closing flag and active set, the
                 \* wait-group, and per connection its socket and tasks

VARIABLES
    \* ---- the time wheel ----
    tw           \* interval, slotNum, currentPos, the slot lists, the timer
                 \* index, every task added so far and the slot scans started

VARIABLES
    \* ---- the writes on one connection and its Close ----
    sending      \* the wait counter sendingData, the tasks inside Write, the
                 \* task inside Close with its waiter, and the socket

VARIABLES
    \* ---- the lock map under its single-mode calls ----
    lockMap      \* the table of mutexes, and per caller the call it is in,
                 \* its keys and its position in the loop

auxVars == <<dict, stream, pool, srv, tw, sending, lockMap>>

NoOne == "none"

(***************************************************************************)
(* Go's integer operators &, | and ^ on non-negative operands.             *)
(***************************************************************************)
RECURSIVE BitAnd(_, _)
BitAnd(a, b) ==
    IF a = 0 \/ b = 0 THEN 0
    ELSE (a % 2) * (b % 2) + 2 * BitAnd(a \div 2, b \div 2)

RECURSIVE BitOr(_, _)
BitOr(a, b) ==
    IF a = 0 THEN b
    ELSE IF b = 0 THEN a
    ELSE (IF a % 2 = 1 \/ b % 2 = 1 THEN 1 ELSE 0) + 2 * BitOr(a \div 2, b \div 2)

RECURSIVE BitXor(_, _)
BitXor(a, b) ==
    IF a = 0 THEN b
    ELSE IF b = 0 THEN a
    ELSE ((a + b) % 2) + 2 * BitXor(a \div 2, b \div 2)

(***************************************************************************)
(* computeCapacity: the smallest power of two >= param, at least 16.  The  *)
(* overflow branch (n < 0) needs param > 2^30 and is outside the sizes the *)
(* program passes (16, 1<<10, 1<<16).                                      *)
(***************************************************************************)
MinCapacity == 16

computeCapacity(param) ==
    IF param <= MinCapacity THEN MinCapacity
    ELSE LET n0 == param - 1
             n1 == BitOr(n0, n0 \div 2)
             n2 == BitOr(n1, n1 \div 4)
             n3 == BitOr(n2, n2 \div 16)
             n4 == BitOr(n3, n3 \div 256)
             n5 == BitOr(n4, n4 \div 65536)
         IN  n5 + 1

dataDictSize == 65536

(***************************************************************************)
(* fnv32: FNV-1a over the key's bytes in uint32 arithmetic.  A uint32 is   *)
(* kept as two 16-bit halves [hi, lo] so that every product stays exact.   *)
(* prime32 = 16777619 = 2^24 + 403.                                        *)
(***************************************************************************)
Half == 65536
OffsetBasisHi == 33052
OffsetBasisLo == 40389
Prime32Lo == 403

\* the keys of the model as byte strings: "aa" and "b28" hash to the same
\* shard of a 65536-shard table (1079), "b" to another (11749)
KeyBytes == ("aa" :> <<97, 97>>) @@ ("b28" :> <<98, 50, 56>>) @@ ("b" :> <<98>>)

fnv32Round(h, byte) ==
    LET lo1 == BitXor(h.lo, byte)            \* hash ^= uint32(key[i])
        p   == lo1 * Prime32Lo               \* hash *= prime32 (mod 2^32)
    IN  [lo |-> p % Half,
         hi |-> (h.hi * Prime32Lo + p \div Half + (lo1 % 256) * 256) % Half]

RECURSIVE fnv32Bytes(_, _)
fnv32Bytes(bytes, n) ==
    IF n = 0 THEN [hi |-> OffsetBasisHi, lo |-> OffsetBasisLo]
    ELSE fnv32Round(fnv32Bytes(bytes, n - 1), bytes[n])

fnv32(key) == fnv32Bytes(KeyBytes[key], Len(KeyBytes[key]))

\* len(dict.table) of the database's data dictionary, MakeConcurrent(dataDictSize)
tableSize == computeCapacity(dataDictSize)

\* spread: (tableSize - 1) & hashCode, for tables of at most 2^16 shards
spread(hashCode) == BitAnd(tableSize - 1, hashCode.lo)

\* spread(fnv32(key)), tabulated once for the keys of the model
ShardIndex == [key \in DOMAIN KeyBytes |-> spread(fnv32(key))]

ShardOfKey(key) == ShardIndex[key]

(***************************************************************************)
(* Tasks.  Under SpecLock they are three callers of RWLocks/RWUnLocks;     *)
(* under SpecDB "X" and "Y" are client connections and "T" runs the        *)
(* expiration job that DB.Expire hands to the time wheel.                  *)
(***************************************************************************)
Procs == {"X", "Y", "T"}

\* keys of the lock checks: two that share a shard and one elsewhere; the
\* callers X and Y pass lists over CallerKeys, the job T any single key
LockKeys == {"aa", "b28", "b"}
CallerKeys == {"aa", "b"}

\* the longest writeKeys ++ readKeys a caller passes
MaxLockKeys == 2

RECURSIVE SeqsUpTo(_, _)
SeqsUpTo(S, n) ==
    IF n = 0 THEN {<<>>}
    ELSE LET shorter == SeqsUpTo(S, n - 1)
         IN  shorter \cup {Append(s, x) : s \in {t \in shorter : Len(t) = n - 1}, x \in S}

Range(s) == {s[i] : i \in 1..Len(s)}

(***************************************************************************)
(* toLockIndices: the distinct shard indices of the keys, sorted.  Go      *)
(* iterates the index map in an unspecified order; the order of first      *)
(* occurrence stands for it, and the sort makes the result independent.    *)
(***************************************************************************)
RECURSIVE IndexMapOrder(_)
IndexMapOrder(keys) ==
    IF keys = <<>> THEN <<>>
    ELSE LET front == IndexMapOrder(SubSeq(keys, 1, Len(keys) - 1))
             index == ShardOfKey(keys[Len(keys)])
         IN  IF index \in Range(front) THEN front ELSE Append(front, index)

toLockIndicesUnsorted(keys, reverse) == IndexMapOrder(keys)

RECURSIVE KeyIndexList(_)
KeyIndexList(keys) ==
    IF keys = <<>> THEN <<>>
    ELSE Append(KeyIndexList(SubSeq(keys, 1, Len(keys) - 1)),
                ShardOfKey(keys[Len(keys)]))

toLockIndicesNoDedup(keys, reverse) ==
    SortSeq(KeyIndexList(keys), LAMBDA i, j : i < j)

toLockIndices(keys, reverse) ==
    SortSeq(IndexMapOrder(keys),
            LAMBDA i, j : IF ~reverse THEN i < j ELSE i > j)

\* writeIndexSet of RWLocks / RWUnLocks
writeIndexSetEmpty(writeKeys) == {}
writeIndexSet(writeKeys) == {ShardOfKey(writeKeys[i]) : i \in 1..Len(writeKeys)}

(***************************************************************************)
(* sync.RWMutex as the shard uses it.  w: the task holding the write lock; *)
(* ww: a task inside Lock() that has announced itself and waits for the    *)
(* readers to leave (new readers queue behind it); r: the readers.         *)
(***************************************************************************)
FreeMutex == [w |-> NoOne, ww |-> NoOne, r |-> {}]

\* mu.RLock() returns
RLockIgnoringWriter(m) == m.ww = NoOne
RLockReady(m) == m.w = NoOne /\ m.ww = NoOne
RLocked(m, p) == [m EXCEPT !.r = @ \cup {p}]

\* mu.Lock() makes progress: it announces itself, or it returns
LockAnnounceReady(m, p) == m.w = NoOne /\ m.ww = NoOne /\ m.r # {}
LockAcquireReady(m, p) == m.w = NoOne /\ m.r = {} /\ m.ww \in {NoOne, p}
LockAnnounced(m, p) == [m EXCEPT !.ww = p]
Locked(m, p) == [m EXCEPT !.w = p, !.ww = NoOne]

\* mu.Unlock() / mu.RUnlock()
Unlocked(m, p) == [m EXCEPT !.w = NoOne]
RUnlocked(m, p) == [m EXCEPT !.r = @ \ {p}]

\* the index list a task's RWLocks call walks, and the one RWUnLocks walks
LockIndices(p) == toLockIndices(wkeys[p] \o rkeys[p], FALSE)
UnlockIndices(p) == toLockIndices(wkeys[p] \o rkeys[p], FALSE)
WriteIndices(p) == writeIndexSet(wkeys[p])

(***************************************************************************)
(* RWLocks(writeKeys, readKeys): entry, then one loop iteration per step.  *)
(***************************************************************************)
RWLocksEnter(p, W, R) ==
    /\ lpc[p] = "idle"
    /\ wkeys' = [wkeys EXCEPT ![p] = W]
    /\ rkeys' = [rkeys EXCEPT ![p] = R]
    /\ li' = [li EXCEPT ![p] = 1]
    /\ lpc' = [lpc EXCEPT ![p] =
                 IF toLockIndices(W \o R, FALSE) = <<>> THEN "held" ELSE "locking"]
    /\ UNCHANGED mutex

LockAdvance(p) ==
    /\ li' = [li EXCEPT ![p] = @ + 1]
    /\ lpc' = [lpc EXCEPT ![p] = IF li[p] = Len(LockIndices(p)) THEN "held" ELSE "locking"]

RWLocksStep(p) ==
    /\ lpc[p] = "locking"
    /\ LET index == LockIndices(p)[li[p]]
           mu == mutex[index]
       IN  IF index \in WriteIndices(p)
           THEN \/ /\ LockAcquireReady(mu, p)
                   /\ mutex' = [mutex EXCEPT ![index] = Locked(mu, p)]
                   /\ LockAdvance(p)
                \/ /\ LockAnnounceReady(mu, p)
                   /\ mutex' = [mutex EXCEPT ![index] = LockAnnounced(mu, p)]
                   /\ UNCHANGED <<li, lpc>>
           ELSE /\ RLockReady(mu)
                /\ mutex' = [mutex EXCEPT ![index] = RLocked(mu, p)]
                /\ LockAdvance(p)
    /\ UNCHANGED <<wkeys, rkeys>>

(***************************************************************************)
(* RWUnLocks with the same arguments: entry, then one iteration per step.  *)
(***************************************************************************)
RWUnLocksEnter(p) ==
    /\ lpc[p] = "held"
    /\ li' = [li EXCEPT ![p] = 1]
    /\ IF UnlockIndices(p) = <<>>
       THEN /\ lpc' = [lpc EXCEPT ![p] = "idle"]
            /\ wkeys' = [wkeys EXCEPT ![p] = <<>>]
            /\ rkeys' = [rkeys EXCEPT ![p] = <<>>]
       ELSE /\ lpc' = [lpc EXCEPT ![p] = "unlocking"]
            /\ UNCHANGED <<wkeys, rkeys>>
    /\ UNCHANGED mutex

RWUnLocksStep(p) ==
    /\ lpc[p] = "unlocking"
    /\ LET index == UnlockIndices(p)[li[p]]
           mu == mutex[index]
           last == li[p] = Len(UnlockIndices(p))
       IN  /\ mutex' = [mutex EXCEPT ![index] =
                          IF index \in WriteIndices(p) THEN Unlocked(mu, p) ELSE RUnlocked(mu, p)]
           /\ li' = [li EXCEPT ![p] = IF last THEN 1 ELSE @ + 1]
           /\ lpc' = [lpc EXCEPT ![p] = IF last THEN "idle" ELSE "unlocking"]
           /\ wkeys' = [wkeys EXCEPT ![p] = IF last THEN <<>> ELSE @]
           /\ rkeys' = [rkeys EXCEPT ![p] = IF last THEN <<>> ELSE @]

(***************************************************************************)
(* The database.  Keys, values and instants of the model.                  *)
(***************************************************************************)
Conns == {"X", "Y"}
Job == "T"
DBKeys == {"aa", "b"}
NilEntity == "nil"
NoTime == -1

\* the last instant of the clock, and the most commands a client queues
MaxClock == 1
MaxQueue == 2

\* strconv.ParseInt on the instants a client sends
ParseInt == ("0" :> 0) @@ ("1" :> 1) @@ ("2" :> 2)

\* strings.ToLower on the command names a client sends
LowerCase ==
    ("MULTI" :> "multi") @@ ("EXEC" :> "exec") @@ ("DISCARD" :> "discard") @@
    ("WATCH" :> "watch") @@ ("SET" :> "set") @@ ("GET" :> "get") @@
    ("DEL" :> "del") @@ ("PEXPIREAT" :> "pexpireat") @@ ("FOO" :> "foo") @@
    ("SELECT" :> "select") @@ ("Set" :> "set")
ToLower(s) == IF s \in DOMAIN LowerCase THEN LowerCase[s] ELSE s

(***************************************************************************)
(* Replies, as the tokens of their wire form.                              *)
(***************************************************************************)
OkReply == <<"+Ok">>
QueuedReply == <<"+QUEUED">>
NullBulkReply == <<"$-1">>
NullArrayReply == <<"*-1">>
BulkReply(arg) == <<"$1", arg>>
IntReply(code) == <<IF code = 0 THEN ":0" ELSE IF code = 1 THEN ":1" ELSE ":2">>
ArgNumErrReply(cmdName) == <<"-ERR wrong number of arguments for", cmdName, "command">>
UnknownCmdErrReply(cmdName) == <<"-ERR unknown command", cmdName>>
NestedMultiErrReply == <<"-ERR MULTI calls can not be nested">>
DiscardErrReply == <<"-ERR DISCARD without MULTI">>
ExecErrReply == <<"-ERR EXEC without MULTI">>
WatchErrReply == <<"-ERR WATCH inside MULTI is not allowed">>
ExecAbortReply == <<"-EXECABORT Transaction discarded because of previous errors.">>
ArrayHeader == <<"*1", "*2", "*3", "*4">>
MultiRawReply(n, tokens) == (IF n = 0 THEN <<"*0">> ELSE <<ArrayHeader[n]>>) \o tokens

ErrorLines ==
    {"-ERR wrong number of arguments for", "-ERR unknown command",
     "-ERR MULTI calls can not be nested", "-ERR DISCARD without MULTI",
     "-ERR EXEC without MULTI", "-ERR WATCH inside MULTI is not allowed",
     "-EXECABORT Transaction discarded because of previous errors."}
IsErrorReply(r) == r # <<>> /\ r[1] \in ErrorLines

(***************************************************************************)
(* Connection: the transaction state of a client.                          *)
(***************************************************************************)
flagMulti == 4

NewConnection == [flags |-> 0, queue |-> <<>>, watching |-> <<>>, txErrors |-> <<>>]

InMultiStateNever(c) == FALSE
InMultiState(c) == BitAnd(c.flags, flagMulti) > 0

SetMultiState(c, state) ==
    IF ~state
    THEN [c EXCEPT !.watching = <<>>, !.queue = <<>>, !.flags = @ - BitAnd(@, flagMulti)]
    ELSE [c EXCEPT !.flags = BitOr(@, flagMulti)]

ConnEnqueueCmd(c, cmdLine) == [c EXCEPT !.queue = Append(@, cmdLine)]
ClearQueuedCmds(c) == [c EXCEPT !.queue = <<>>]
GetWatching(c) == c.watching
AddTxError(c, err) == [c EXCEPT !.txErrors = Append(@, err)]

(***************************************************************************)
(* The command registry, with the commands of the model registered.        *)
(***************************************************************************)
flagWrite == 0
flagReadOnly == 1

cmdTable ==
    ("set" :> [arity |-> -3, flags |-> flagWrite, prepare |-> "writeFirstKey"]) @@
    ("get" :> [arity |-> 2, flags |-> flagReadOnly, prepare |-> "readFirstKey"]) @@
    ("del" :> [arity |-> -2, flags |-> flagWrite, prepare |-> "writeAllKeys"]) @@
    ("pexpireat" :> [arity |-> 3, flags |-> flagWrite, prepare |-> "writeFirstKey"])

isReadOnlyCommand(name) ==
    IF name \notin DOMAIN cmdTable THEN FALSE
    ELSE BitAnd(cmdTable[name].flags, flagReadOnly) > 0

\* cmd.prepare(args): the write keys and the read keys of a command
prepare(name, args) ==
    LET kind == cmdTable[name].prepare
    IN  IF kind = "writeFirstKey" THEN <<(<<args[1]>>), (<<>>)>>
        ELSE IF kind = "readFirstKey" THEN <<(<<>>), (<<args[1]>>)>>
        ELSE <<args, (<<>>)>>

\* a table lookup that is followed by no check of the argument count
arityIgnored(arity, cmdArgs) == TRUE

validateArity(arity, cmdArgs) ==
    IF arity >= 0 THEN Len(cmdArgs) = arity ELSE Len(cmdArgs) >= -arity

(***************************************************************************)
(* DB: data access.  A dictionary is a function on DBKeys; NilEntity and   *)
(* NoTime stand for an absent entry, and an absent version reads as 0.     *)
(***************************************************************************)
makeDB ==
    [data |-> [k \in DBKeys |-> NilEntity],
     ttlMap |-> [k \in DBKeys |-> NoTime],
     versionMap |-> [k \in DBKeys |-> 0]]

PutEntity(d, key, entity) == [d EXCEPT !.data[key] = entity]

RemoveData(d, key) == [d EXCEPT !.data[key] = NilEntity]
RemoveTtl(d, key) == [d EXCEPT !.ttlMap[key] = NoTime]
Remove(d, key) == RemoveTtl(RemoveData(d, key), key)

RECURSIVE Removes(_, _)
Removes(d, keys) ==
    IF keys = <<>> THEN [db |-> d, deleted |-> 0]
    ELSE LET exists == d.data[Head(keys)] # NilEntity
             rest == Removes(IF exists THEN Remove(d, Head(keys)) ELSE d, Tail(keys))
         IN  [db |-> rest.db, deleted |-> rest.deleted + (IF exists THEN 1 ELSE 0)]

GetVersion(d, key) == d.versionMap[key]

RECURSIVE addVersion(_, _)
addVersion(d, keys) ==
    IF keys = <<>> THEN d
    ELSE addVersion([d EXCEPT !.versionMap[Head(keys)] = GetVersion(d, Head(keys)) + 1],
                    Tail(keys))

\* a job that removes its key without comparing the clock
AfterAlways(now, expireTime) == TRUE

\* time.Now().After(expireTime)
After(now, expireTime) == now > expireTime

IsExpired(d, key, now) ==
    IF d.ttlMap[key] = NoTime THEN [db |-> d, expired |-> FALSE]
    ELSE LET expired == After(now, d.ttlMap[key])
         IN  [db |-> IF expired THEN Remove(d, key) ELSE d, expired |-> expired]

\* GetEntity run without interruption, as under the key's write lock
GetEntity(d, key, now) ==
    IF d.data[key] = NilEntity THEN [db |-> d, entity |-> NilEntity, ok |-> FALSE]
    ELSE LET e == IsExpired(d, key, now)
         IN  IF e.expired THEN [db |-> e.db, entity |-> NilEntity, ok |-> FALSE]
             ELSE [db |-> d, entity |-> d.data[key], ok |-> TRUE]

Expire(d, key, expireTime) == [d EXCEPT !.ttlMap[key] = expireTime]
Persist(d, key) == [d EXCEPT !.ttlMap[key] = NoTime]

\* Flush: db.data.Clear() and db.ttlMap.Clear()
Flush(d) ==
    [d EXCEPT !.data = [k \in DBKeys |-> NilEntity],
              !.ttlMap = [k \in DBKeys |-> NoTime]]

\* timewheel.At(expireTime, "expire:"+key, job) and timewheel.Cancel
At(w, key, expireTime) == [w EXCEPT ![key] = expireTime]
Cancel(w, key) == [w EXCEPT ![key] = NoTime]

(***************************************************************************)
(* The executors registered for the commands of the model.  SET, DEL and   *)
(* PEXPIREAT run under the write lock of their keys, in one step each.     *)
(***************************************************************************)
execSet(d, w, args) ==
    [db |-> Persist(PutEntity(d, args[1], args[2]), args[1]),
     wheel |-> Cancel(w, args[1]),
     reply |-> OkReply]

execDel(d, w, args) ==
    LET r == Removes(d, args)
    IN  [db |-> r.db, wheel |-> w, reply |-> IntReply(r.deleted)]

execPExpireAt(d, w, args, now) ==
    LET g == GetEntity(d, args[1], now)
    IN  IF ~g.ok THEN [db |-> g.db, wheel |-> w, reply |-> IntReply(0)]
        ELSE [db |-> Expire(g.db, args[1], ParseInt[args[2]]),
              wheel |-> At(w, args[1], ParseInt[args[2]]),
              reply |-> IntReply(1)]

(***************************************************************************)
(* GET runs GetEntity under a read lock, which other readers of the shard  *)
(* share: one step per dictionary access.                                  *)
(*   g1  raw, ok := db.data.GetWithLock(key)                               *)
(*   g2  IsExpired: db.ttlMap.Get(key) and time.Now().After(expireTime)    *)
(*   g3  Remove: db.data.RemoveWithLock(key)                               *)
(*   g4  Remove: db.ttlMap.Remove(key)                                     *)
(* late records that the key was present and past its instant at g1.       *)
(***************************************************************************)
GetEntityStep(d, e, key, now) ==
    LET base == [db |-> d, gpc |-> e.gpc, raw |-> e.raw, late |-> e.late,
                 done |-> FALSE, ok |-> FALSE]
    IN  IF e.gpc = "g1"
        THEN IF d.data[key] = NilEntity
             THEN [base EXCEPT !.done = TRUE]
             ELSE [base EXCEPT !.gpc = "g2", !.raw = d.data[key],
                               !.late = d.ttlMap[key] # NoTime /\ After(now, d.ttlMap[key])]
        ELSE IF e.gpc = "g2"
        THEN IF d.ttlMap[key] = NoTime \/ ~After(now, d.ttlMap[key])
             THEN [base EXCEPT !.done = TRUE, !.ok = TRUE]
             ELSE [base EXCEPT !.gpc = "g3"]
        ELSE IF e.gpc = "g3"
        THEN [base EXCEPT !.db = RemoveData(d, key), !.gpc = "g4"]
        ELSE [base EXCEPT !.db = RemoveTtl(d, key), !.done = TRUE]

execGet(d, w, e, args, now) ==
    LET g == GetEntityStep(d, e, args[1], now)
    IN  [db |-> g.db, wheel |-> w, gpc |-> g.gpc, raw |-> g.raw, late |-> g.late,
         stale |-> e.stale \/ (g.done /\ g.ok /\ g.late),
         reply |-> IF ~g.done THEN <<>>
                   ELSE IF g.ok THEN BulkReply(g.raw) ELSE NullBulkReply]

\* cmd.executor(db, args): one step of it; reply <<>> while it has not returned
executor(name, d, w, e, args, now) ==
    LET atomic == IF name = "set" THEN execSet(d, w, args)
                  ELSE IF name = "del" THEN execDel(d, w, args)
                  ELSE execPExpireAt(d, w, args, now)
    IN  IF name = "get" THEN execGet(d, w, e, args, now)
        ELSE [db |-> atomic.db, wheel |-> atomic.wheel, gpc |-> e.gpc, raw |-> e.raw,
              late |-> e.late, stale |-> e.stale, reply |-> atomic.reply]

\* execWithLock: look the command up and check its arity, then run it
execWithLock(d, w, e, cmdLine, now) ==
    LET cmdName == ToLower(cmdLine[1])
        failed == [db |-> d, wheel |-> w, gpc |-> e.gpc, raw |-> e.raw,
                   late |-> e.late, stale |-> e.stale, reply |-> <<>>]
    IN  IF cmdName \notin DOMAIN cmdTable
        THEN [failed EXCEPT !.reply = UnknownCmdErrReply(cmdName)]
        ELSE IF ~validateArity(cmdTable[cmdName].arity, cmdLine)
        THEN [failed EXCEPT !.reply = ArgNumErrReply(cmdName)]
        ELSE executor(cmdName, d, w, e, Tail(cmdLine), now)

(***************************************************************************)
(* What a task runs under its locks.                                       *)
(***************************************************************************)
IdleExec ==
    [kind |-> "none", pc |-> "idle", run |-> <<>>, ri |-> 1, replies |-> <<>>,
     gpc |-> "g1", raw |-> NilEntity, late |-> FALSE, stale |-> FALSE,
     ver |-> makeDB.versionMap, watched |-> FALSE, ret |-> <<>>]

\* the write keys of a command line the registry knows, as a set
WriteKeySet(cmdLine) ==
    LET cmdName == ToLower(cmdLine[1])
    IN  IF cmdName \notin DOMAIN cmdTable THEN {}
        ELSE Range(prepare(cmdName, Tail(cmdLine))[1])

\* a watcher is dirty once another connection completed a write of a key it
\* watches, until its watches are dropped
DirtyNext(conn2, p, written) ==
    [c \in Conns |->
        IF conn2[c].watching = <<>> THEN FALSE
        ELSE dirty[c] \/ (c # p /\ written \cap DOMAIN conn2[c].watching # {})]

\* Exec returns r at once, leaving the connection as cn
ReplyNow(c, r, cn) ==
    /\ reply' = [to |-> c, tokens |-> r]
    /\ conn' = [conn EXCEPT ![c] = cn]
    /\ dirty' = DirtyNext([conn EXCEPT ![c] = cn], c, {})
    /\ UNCHANGED <<lockVars, db, wheel, clock, exec>>

(***************************************************************************)
(* The transaction commands: StartMulti, DiscardMulti, Watch, EnqueueCmd   *)
(* and execMulti.                                                          *)
(***************************************************************************)
StartMulti(c) ==
    IF InMultiState(conn[c]) THEN ReplyNow(c, NestedMultiErrReply, conn[c])
    ELSE ReplyNow(c, OkReply, SetMultiState(conn[c], TRUE))

DiscardMulti(c) ==
    IF ~InMultiState(conn[c]) THEN ReplyNow(c, DiscardErrReply, conn[c])
    ELSE ReplyNow(c, OkReply, SetMultiState(ClearQueuedCmds(conn[c]), FALSE))

Watch(c, keys) ==
    IF InMultiState(conn[c]) THEN ReplyNow(c, WatchErrReply, conn[c])
    ELSE LET watching == GetWatching(conn[c])
             watched == [k \in DOMAIN watching \cup Range(keys) |->
                            IF k \in Range(keys) THEN GetVersion(db, k) ELSE watching[k]]
         IN  ReplyNow(c, OkReply, [conn[c] EXCEPT !.watching = watched])

EnqueueCmd(c, cmdLine) ==
    LET cmdName == ToLower(cmdLine[1])
        checked == IF cmdName \notin DOMAIN cmdTable
                   THEN AddTxError(conn[c], UnknownCmdErrReply(cmdName))
                   ELSE IF ~validateArity(cmdTable[cmdName].arity, cmdLine)
                   THEN AddTxError(conn[c], ArgNumErrReply(cmdName))
                   ELSE conn[c]
    IN  ReplyNow(c, QueuedReply, ConnEnqueueCmd(checked, cmdLine))

\* the write keys and the read keys of all queued commands
RECURSIVE QueuedKeys(_)
QueuedKeys(cmdLines) ==
    IF cmdLines = <<>> THEN <<(<<>>), (<<>>)>>
    ELSE LET rest == QueuedKeys(Tail(cmdLines))
             keys == prepare(ToLower(Head(cmdLines)[1]), Tail(Head(cmdLines)))
         IN  <<keys[1] \o rest[1], keys[2] \o rest[2]>>

isWatchingChanged(d, watching) ==
    \E k \in DOMAIN watching : GetVersion(d, k) # watching[k]

\* EXEC up to the lock request: steps 1 to 3
execMulti(c) ==
    IF ~InMultiState(conn[c]) THEN ReplyNow(c, ExecErrReply, conn[c])
    ELSE IF conn[c].txErrors # <<>>
    THEN ReplyNow(c, ExecAbortReply, SetMultiState(conn[c], FALSE))
    ELSE LET keys == QueuedKeys(conn[c].queue)
         IN  /\ RWLocksEnter(c, keys[1], keys[2])
             /\ exec' = [exec EXCEPT ![c] =
                           [IdleExec EXCEPT !.kind = "multi", !.pc = "watch",
                                            !.run = conn[c].queue, !.ver = db.versionMap,
                                            !.watched = dirty[c]]]
             /\ UNCHANGED <<db, wheel, clock, conn, reply, dirty>>

\* EXEC under the locks: step 4, and steps 5 to 7 of an empty queue
WatchCheckStep(c) ==
    /\ lpc[c] = "held"
    /\ exec[c].pc = "watch"
    /\ LET changed == isWatchingChanged(db, GetWatching(conn[c]))
           conn2 == [conn EXCEPT ![c] = SetMultiState(@, FALSE)]
           ret == IF changed THEN NullArrayReply ELSE MultiRawReply(0, <<>>)
       IN  IF changed \/ exec[c].run = <<>>
           THEN /\ reply' = [to |-> c, tokens |-> ret]
                /\ conn' = conn2
                /\ dirty' = DirtyNext(conn2, c, {})
                /\ RWUnLocksEnter(c)
                /\ exec' = [exec EXCEPT ![c] =
                              IF UnlockIndices(c) = <<>> THEN IdleExec
                              ELSE [@ EXCEPT !.pc = "unlock", !.ret = ret]]
           ELSE /\ exec' = [exec EXCEPT ![c] = [@ EXCEPT !.pc = "run"]]
                /\ UNCHANGED <<reply, conn, dirty, lockVars>>
    /\ UNCHANGED <<db, wheel, clock>>

(***************************************************************************)
(* execNormalCommand up to the lock request, and DB.Exec.                  *)
(***************************************************************************)
\* a version bump of every key of the command, read keys included
versionsBumpedBeforeLocks(d, keys) == addVersion(d, keys[1] \o keys[2])

\* between prepare and RWLocks the call db.addVersion(write...) is commented
\* out: the versions stay as they are
versionsBeforeLocks(d, keys) == d

execNormalCommand(c, cmdLine) ==
    LET cmdName == ToLower(cmdLine[1])
    IN  IF cmdName \notin DOMAIN cmdTable
        THEN ReplyNow(c, UnknownCmdErrReply(cmdName), conn[c])
        ELSE IF ~validateArity(cmdTable[cmdName].arity, cmdLine)
        THEN ReplyNow(c, ArgNumErrReply(cmdName), conn[c])
        ELSE LET keys == prepare(cmdName, Tail(cmdLine))
             IN  /\ RWLocksEnter(c, keys[1], keys[2])
                 /\ exec' = [exec EXCEPT ![c] =
                               [IdleExec EXCEPT !.kind = "normal", !.pc = "run",
                                                !.run = <<cmdLine>>, !.ver = db.versionMap]]
                 /\ db' = versionsBeforeLocks(db, keys)
                 /\ UNCHANGED <<wheel, clock, conn, reply, dirty>>

Exec(c, cmdLine) ==
    /\ exec[c].pc = "idle"
    /\ LET cmdName == ToLower(cmdLine[1])
       IN  IF cmdName = "multi"
           THEN IF Len(cmdLine) # 1 THEN ReplyNow(c, ArgNumErrReply(cmdName), conn[c])
                ELSE StartMulti(c)
           ELSE IF cmdName = "discard"
           THEN IF Len(cmdLine) # 1 THEN ReplyNow(c, ArgNumErrReply(cmdName), conn[c])
                ELSE DiscardMulti(c)
           ELSE IF cmdName = "exec"
           THEN IF Len(cmdLine) # 1 THEN ReplyNow(c, ArgNumErrReply(cmdName), conn[c])
                ELSE execMulti(c)
           ELSE IF cmdName = "watch"
           THEN IF ~validateArity(-2, cmdLine) THEN ReplyNow(c, ArgNumErrReply(cmdName), conn[c])
                ELSE Watch(c, Tail(cmdLine))
           ELSE IF InMultiState(conn[c]) THEN EnqueueCmd(c, cmdLine)
           ELSE execNormalCommand(c, cmdLine)

(***************************************************************************)
(* One step of the executor of the command a task runs under its locks;    *)
(* when the last command returns, the reply is set and RWUnLocks begins.   *)
(***************************************************************************)
ExecutorStep(p) ==
    /\ lpc[p] = "held"
    /\ exec[p].pc = "run"
    /\ exec[p].kind \in {"normal", "multi"}
    /\ LET e == exec[p]
           cmdLine == e.run[e.ri]
           cmdName == ToLower(cmdLine[1])
           out == IF e.kind = "multi" THEN execWithLock(db, wheel, e, cmdLine, clock)
                  ELSE executor(cmdName, db, wheel, e, Tail(cmdLine), clock)
           replies == e.replies \o out.reply
           last == e.ri = Len(e.run)
           written == IF out.reply = <<>> \/ IsErrorReply(out.reply) \/ isReadOnlyCommand(cmdName)
                      THEN {} ELSE WriteKeySet(cmdLine)
           conn2 == IF last /\ out.reply # <<>> /\ e.kind = "multi"
                    THEN [conn EXCEPT ![p] = SetMultiState(@, FALSE)] ELSE conn
           next == [e EXCEPT !.replies = replies, !.gpc = "g1", !.raw = NilEntity,
                             !.late = FALSE, !.stale = out.stale]
           ret == IF e.kind = "multi" THEN MultiRawReply(Len(e.run), replies) ELSE replies
       IN  /\ db' = out.db
           /\ wheel' = out.wheel
           /\ conn' = conn2
           /\ dirty' = DirtyNext(conn2, p, written)
           /\ IF out.reply = <<>>
              THEN /\ exec' = [exec EXCEPT ![p] =
                                 [e EXCEPT !.gpc = out.gpc, !.raw = out.raw, !.late = out.late]]
                   /\ UNCHANGED <<reply, lockVars>>
              ELSE IF ~last
              THEN /\ exec' = [exec EXCEPT ![p] = [next EXCEPT !.ri = @ + 1]]
                   /\ UNCHANGED <<reply, lockVars>>
              ELSE /\ exec' = [exec EXCEPT ![p] = [next EXCEPT !.pc = "unlock", !.ret = ret]]
                   /\ reply' = [to |-> p, tokens |-> ret]
                   /\ RWUnLocksEnter(p)
    /\ UNCHANGED clock

(***************************************************************************)
(* The job DB.Expire hands to the time wheel.  The wheel runs it in a task *)
(* of its own, at an instant the wheel's slot arithmetic decides.          *)
(***************************************************************************)
ExpireJobFires(key) ==
    /\ exec[Job].pc = "idle"
    /\ wheel[key] # NoTime
    /\ wheel' = Cancel(wheel, key)
    /\ RWLocksEnter(Job, <<key>>, <<>>)
    /\ exec' = [exec EXCEPT ![Job] =
                  [IdleExec EXCEPT !.kind = "job", !.pc = "run", !.run = <<(<<"expire:", key>>)>>]]
    /\ UNCHANGED <<db, clock, conn, reply, dirty>>

ExpireJobStep ==
    /\ lpc[Job] = "held"
    /\ exec[Job].pc = "run"
    /\ exec[Job].kind = "job"
    /\ LET key == exec[Job].run[1][2]
       IN  db' = IF db.ttlMap[key] = NoTime THEN db
                 ELSE IF After(clock, db.ttlMap[key]) THEN Remove(db, key)
                 ELSE db
    /\ exec' = [exec EXCEPT ![Job] = [@ EXCEPT !.pc = "unlock"]]
    /\ RWUnLocksEnter(Job)
    /\ UNCHANGED <<wheel, clock, conn, reply, dirty, aofVars, auxVars>>

Tick ==
    /\ clock < MaxClock
    /\ clock' = clock + 1
    /\ UNCHANGED <<lockVars, db, wheel, conn, reply, exec, dirty, aofVars, auxVars>>

(***************************************************************************)
(* The AOF persister.  A file is the sequence of its lines; every line     *)
(* ends with CRLF, so a line of n characters takes n + 2 bytes.             *)
(***************************************************************************)
FsyncAlways == "always"
FsyncEverySec == "everysec"
FsyncNo == "no"
FsyncPolicies == {FsyncAlways, FsyncEverySec, FsyncNo}

\* config.Properties.Databases
Databases == 2
DbIndices == 0..(Databases - 1)

\* the most payloads the channel buffers (aofQueueSize in the program), the
\* most SaveCmdLine calls of a run with two clients and of a run with one,
\* the most failed writes and the most rewrite sessions
MaxAofQueue == 1
MaxSaves == 2
MaxReplaySaves == 3
MaxIoErrors == 1
MaxRewrites == 1

CRLFLen == 2

\* strconv.Itoa on the lengths and indices of the model
Itoa ==
    (0 :> "0") @@ (1 :> "1") @@ (2 :> "2") @@ (3 :> "3") @@ (4 :> "4") @@
    (5 :> "5") @@ (6 :> "6") @@ (7 :> "7") @@ (8 :> "8") @@ (9 :> "9")

\* the "$<len>" line and the body line of each argument
RECURSIVE BulkLines(_)
BulkLines(args) ==
    IF args = <<>> THEN <<>>
    ELSE <<"$" \o Itoa[Len(Head(args))], Head(args)>> \o BulkLines(Tail(args))

\* MultiBulkReply.ToBytes of a reply whose arguments are all present
ToBytes(args) == <<"*" \o Itoa[Len(args)]>> \o BulkLines(args)

RECURSIVE ByteLen(_)
ByteLen(lines) ==
    IF lines = <<>> THEN 0
    ELSE Len(Head(lines)) + CRLFLen + ByteLen(Tail(lines))

\* io.LimitReader(file, maxBytes) when maxBytes > 0, else the file itself; a
\* line the limit cuts short ends the stream, as ReadBytes then fails
LimitReader(lines, maxBytes) ==
    IF maxBytes > 0
    THEN LET fits == {j \in 0..Len(lines) : ByteLen(SubSeq(lines, 1, j)) <= maxBytes}
         IN  SubSeq(lines, 1, CHOOSE j \in fits : \A i \in fits : i <= j)
    ELSE lines

\* strconv.ParseInt(line[1:]) for a line that starts with sigil; -1: no number
DecimalAfter(sigil, line) ==
    IF \E n \in DOMAIN Itoa : line = sigil \o Itoa[n]
    THEN CHOOSE n \in DOMAIN Itoa : line = sigil \o Itoa[n]
    ELSE -1

\* the loop of parseArray: n times a length line and a body of that length
RECURSIVE parseArray(_, _, _)
parseArray(lines, pos, n) ==
    IF n = 0 THEN [multi |-> TRUE, args |-> <<>>, next |-> pos, ok |-> TRUE]
    ELSE IF pos + 1 > Len(lines)
    THEN [multi |-> TRUE, args |-> <<>>, next |-> pos, ok |-> FALSE]
    ELSE LET strLen == DecimalAfter("$", lines[pos])
             rest == parseArray(lines, pos + 2, n - 1)
         IN  IF strLen # Len(lines[pos + 1])
             THEN [multi |-> TRUE, args |-> <<>>, next |-> pos, ok |-> FALSE]
             ELSE [rest EXCEPT !.args = <<lines[pos + 1]>> \o @]

\* parser0: the next payload of the stream.  ok is false at the end of the
\* stream; a line that opens no array is a payload LoadAof passes over
parser0(lines, pos) ==
    IF pos > Len(lines)
    THEN [multi |-> FALSE, args |-> <<>>, next |-> pos, ok |-> FALSE]
    ELSE IF DecimalAfter("*", lines[pos]) < 0
    THEN [multi |-> FALSE, args |-> <<>>, next |-> pos + 1, ok |-> TRUE]
    ELSE parseArray(lines, pos + 1, DecimalAfter("*", lines[pos]))

(***************************************************************************)
(* The server of the databases: SELECT changes the connection's selected   *)
(* database, every other command goes to that database.                     *)
(***************************************************************************)
MakeAuxiliaryServer == [i \in DbIndices |-> makeDB]

NoWheel == [k \in DBKeys |-> NoTime]

ServerExec(dbs, selectedDB, cmdLine) ==
    LET cmdName == ToLower(cmdLine[1])
        same == [dbSet |-> dbs, selectedDB |-> selectedDB, reply |-> <<>>]
    IN  IF cmdName = "select"
        THEN IF Len(cmdLine) # 2
             THEN [same EXCEPT !.reply = ArgNumErrReply("select")]
             ELSE IF cmdLine[2] \notin DOMAIN ParseInt
             THEN [same EXCEPT !.reply = <<"-ERR invalid DB index">>]
             ELSE IF ParseInt[cmdLine[2]] \notin DbIndices
             THEN [same EXCEPT !.reply = <<"-ERR DB index is out of range">>]
             ELSE [same EXCEPT !.selectedDB = ParseInt[cmdLine[2]], !.reply = OkReply]
        ELSE LET r == execWithLock(dbs[selectedDB], NoWheel, IdleExec, cmdLine, 0)
             IN  [same EXCEPT !.dbSet[selectedDB] = r.db, !.reply = r.reply]

(***************************************************************************)
(* LoadAof.  One turn of its loop takes the next payload of the parser,    *)
(* runs it on persister.db through the fake connection and, for a SELECT,  *)
(* stores the index in persister.currentDB.                                *)
(***************************************************************************)
LoadAofPayload(lines, pos, selectedDB, dbs, currentDB) ==
    LET p == parser0(lines, pos)
        same == [done |-> FALSE, pos |-> p.next, selectedDB |-> selectedDB,
                 dbSet |-> dbs, currentDB |-> currentDB]
    IN  IF ~p.ok THEN [same EXCEPT !.done = TRUE]
        ELSE IF ~p.multi \/ p.args = <<>> THEN same
        ELSE LET ret == ServerExec(dbs, selectedDB, p.args)
                 isSelect == /\ ToLower(p.args[1]) = "select"
                             /\ Len(p.args) >= 2
                             /\ p.args[2] \in DOMAIN ParseInt
             IN  [same EXCEPT !.selectedDB = ret.selectedDB,
                              !.dbSet = ret.dbSet,
                              !.currentDB = IF isSelect THEN ParseInt[p.args[2]] ELSE @]

RECURSIVE LoadAofFrom(_, _, _, _, _)
LoadAofFrom(lines, pos, selectedDB, dbs, currentDB) ==
    LET s == LoadAofPayload(lines, pos, selectedDB, dbs, currentDB)
    IN  IF s.done THEN [dbSet |-> dbs, currentDB |-> currentDB]
        ELSE LoadAofFrom(lines, s.pos, s.selectedDB, s.dbSet, s.currentDB)

\* a whole run of LoadAof(maxBytes) on a file nobody appends to meanwhile
LoadAof(lines, maxBytes, dbs, currentDB) ==
    LoadAofFrom(LimitReader(lines, maxBytes), 1, 0, dbs, currentDB)

(***************************************************************************)
(* The persister and its tasks.                                            *)
(***************************************************************************)
NilChan == "nil"
AofChan == "chan"
NoPolicy == ""

Listener == "L"
AofTasks == Conns \cup {Listener}

NoPersister ==
    [aofFsync |-> NoPolicy, aofChan |-> NilChan, currentDB |-> 0, pausingAof |-> NoOne]

NoPayload == [cmdLine |-> <<>>, dbIndex |-> 0, call |-> 0]
IdleTask == [pc |-> "idle", p |-> NoPayload]

NoRewrite ==
    [pc |-> "idle", aofChan |-> NilChan, fileSize |-> 0, pos |-> 1, selectedDB |-> 0,
     db |-> MakeAuxiliaryServer, tmpFile |-> <<>>, runs |-> 0]

\* NewPersister(db, filename, load, fsync, tmpDBMaker): the writer task
\* starts at its receive
NewPersister(load, fsync) ==
    /\ persister.aofFsync = NoPolicy
    /\ LET loaded == LoadAof(aofFile, 0, dbSet, 0)
       IN  /\ dbSet' = IF load THEN loaded.dbSet ELSE dbSet
           /\ persister' = [aofFsync |-> ToLower(fsync), aofChan |-> AofChan,
                            currentDB |-> IF load THEN loaded.currentDB ELSE 0,
                            pausingAof |-> NoOne]
    /\ task' = [task EXCEPT ![Listener].pc = "recv"]
    /\ UNCHANGED <<aofQueue, aofFile, rewrite, calls, frames, enq, ioErrors>>

\* the calls that had returned, their payload written or enqueued
ReturnedCalls == {i \in 1..Len(calls) : calls[i].st = "returned"}

\* a client's write command runs on its selected database and hands its
\* command line to SaveCmdLine; the clients make at most so many calls, and
\* none once Close has been called
ClientWrites(c, dbIndex, cmdLine, most) ==
    /\ persister.aofFsync # NoPolicy
    /\ closer.pc = "idle"
    /\ task[c].pc = "idle"
    /\ Len(calls) < most
    /\ dbSet' = ServerExec(dbSet, dbIndex, cmdLine).dbSet
    /\ task' = [task EXCEPT ![c] =
                  [pc |-> "s1",
                   p |-> [cmdLine |-> cmdLine, dbIndex |-> dbIndex, call |-> Len(calls) + 1]]]
    /\ calls' = Append(calls, [by |-> c, dbIndex |-> dbIndex, cmdLine |-> cmdLine,
                               pred |-> ReturnedCalls, st |-> "running",
                               failed |-> FALSE])
    /\ UNCHANGED <<persister, aofQueue, aofFile, rewrite, frames, enq, ioErrors>>

\* SaveCmdLine, line 120: return at once while aofChan is nil; else write in
\* the caller's task under FsyncAlways, or go on to the send
SaveCmdLineCheck(c) ==
    /\ task[c].pc = "s1"
    /\ task' = [task EXCEPT ![c].pc =
                  IF persister.aofChan = NilChan THEN "idle"
                  ELSE IF persister.aofFsync = FsyncAlways THEN "w1" ELSE "s2"]
    /\ calls' = IF persister.aofChan = NilChan
                THEN [calls EXCEPT ![task[c].p.call].st = "dropped"]
                ELSE calls
    /\ UNCHANGED <<persister, aofQueue, aofFile, dbSet, rewrite, frames, enq, ioErrors>>

\* SaveCmdLine, line 133: the field is read again; a send on a nil channel
\* blocks for ever, a send on a closed channel panics, a send on the open
\* channel waits for room in its buffer
SaveCmdLineSend(c) ==
    /\ task[c].pc = "s2"
    /\ IF persister.aofChan = NilChan
       THEN /\ task' = [task EXCEPT ![c].pc = "blocked"]
            /\ calls' = [calls EXCEPT ![task[c].p.call].st = "blocked"]
            /\ UNCHANGED <<aofQueue, enq>>
       ELSE IF closer.chanClosed
       THEN /\ task' = [task EXCEPT ![c].pc = "panic"]
            /\ calls' = [calls EXCEPT ![task[c].p.call].st = "panicked"]
            /\ UNCHANGED <<aofQueue, enq>>
       ELSE /\ Len(aofQueue) < MaxAofQueue
            /\ aofQueue' = Append(aofQueue, task[c].p)
            /\ enq' = Append(enq, task[c].p.call)
            /\ task' = [task EXCEPT ![c].pc = "idle"]
            /\ calls' = [calls EXCEPT ![task[c].p.call].st = "returned"]
    /\ UNCHANGED <<persister, aofFile, dbSet, rewrite, frames, ioErrors>>

\* listenCmd: the writer task takes the next payload of the channel
listenCmd ==
    /\ task[Listener].pc = "recv"
    /\ aofQueue # <<>>
    /\ task' = [task EXCEPT ![Listener] = [pc |-> "w1", p |-> Head(aofQueue)]]
    /\ aofQueue' = Tail(aofQueue)
    /\ UNCHANGED <<persister, aofFile, dbSet, rewrite, calls, frames, enq, ioErrors>>

\* sync.Mutex: Lock returns when nobody holds the mutex
pausingAofIgnored(holder) == TRUE
pausingAofFree(holder) == holder = NoOne

\* where writeAof returns to, and what its return means for the call:
\* SaveCmdLine has no result, so a caller's call has returned either way;
\* failed records that a Write for the call failed
AfterWrite(t) == IF t = Listener THEN "recv" ELSE "idle"
CallsAfterWrite(t, ok) ==
    [calls EXCEPT ![task[t].p.call].st = IF t = Listener THEN @ ELSE "returned",
                  ![task[t].p.call].failed = ~ok]

\* what aofFile.Write can do: fail, while the budget of failures lasts, and
\* always once the file is closed
WriteOutcomes ==
    IF closer.fileClosed THEN {FALSE}
    ELSE IF ioErrors < MaxIoErrors THEN BOOLEAN ELSE {TRUE}

\* writeAof, line 149
writeAofLock(t) ==
    /\ task[t].pc = "w1"
    /\ pausingAofFree(persister.pausingAof)
    /\ persister' = [persister EXCEPT !.pausingAof = t]
    /\ task' = [task EXCEPT ![t].pc = "w2"]
    /\ UNCHANGED <<aofQueue, aofFile, dbSet, rewrite, calls, frames, enq, ioErrors>>

neverSelect(dbIndex, currentDB) == FALSE
needsSelect(dbIndex, currentDB) == dbIndex # currentDB

\* writeAof, lines 153-164: the SELECT frame; a failed write skips the command
writeAofSelect(t, ok) ==
    /\ task[t].pc = "w2"
    /\ IF ~needsSelect(task[t].p.dbIndex, persister.currentDB)
       THEN /\ task' = [task EXCEPT ![t].pc = "w3"]
            /\ UNCHANGED <<persister, aofFile, calls, frames, ioErrors>>
       ELSE IF ok
       THEN /\ aofFile' = aofFile \o ToBytes(<<"SELECT", Itoa[task[t].p.dbIndex]>>)
            /\ frames' = Append(frames, [call |-> task[t].p.call, select |-> TRUE])
            /\ persister' = [persister EXCEPT !.currentDB = task[t].p.dbIndex]
            /\ task' = [task EXCEPT ![t].pc = "w3"]
            /\ UNCHANGED <<calls, ioErrors>>
       ELSE /\ ioErrors' = ioErrors + 1
            /\ persister' = [persister EXCEPT !.pausingAof = NoOne]
            /\ task' = [task EXCEPT ![t].pc = AfterWrite(t)]
            /\ calls' = CallsAfterWrite(t, FALSE)
            /\ UNCHANGED <<aofFile, frames>>
    /\ UNCHANGED <<aofQueue, dbSet, rewrite, enq>>

\* writeAof, lines 166-180: the command frame, then the deferred Unlock
writeAofCommand(t, ok) ==
    /\ task[t].pc = "w3"
    /\ IF ok
       THEN /\ aofFile' = aofFile \o ToBytes(task[t].p.cmdLine)
            /\ frames' = Append(frames, [call |-> task[t].p.call, select |-> FALSE])
            /\ UNCHANGED ioErrors
       ELSE /\ ioErrors' = ioErrors + 1
            /\ UNCHANGED <<aofFile, frames>>
    /\ persister' = [persister EXCEPT !.pausingAof = NoOne]
    /\ task' = [task EXCEPT ![t].pc = AfterWrite(t)]
    /\ calls' = CallsAfterWrite(t, ok)
    /\ UNCHANGED <<aofQueue, dbSet, rewrite, enq>>

(***************************************************************************)
(* A rewrite session.  StartRewrite captures the size of the file under    *)
(* the persister's mutex; generateAof then calls persister.LoadAof with    *)
(* that size and dumps the database of its rewrite handler to tmpFile.     *)
(***************************************************************************)
StartRewrite ==
    /\ persister.aofFsync # NoPolicy
    /\ rewrite.pc = "idle"
    /\ rewrite.runs < MaxRewrites
    /\ pausingAofFree(persister.pausingAof)
    /\ rewrite' = [rewrite EXCEPT !.pc = "load", !.fileSize = ByteLen(aofFile),
                                  !.tmpFile = <<>>]
    /\ UNCHANGED <<persister, aofQueue, aofFile, dbSet, task, calls, frames, enq, ioErrors>>

\* the database hands a write command that did not fail to its addAof, which
\* the server binds to SaveCmdLine of the persister
Relogged(args, ret) ==
    /\ ToLower(args[1]) \in DOMAIN cmdTable
    /\ ~isReadOnlyCommand(ToLower(args[1]))
    /\ ~IsErrorReply(ret)

\* a load that leaves the channel in its field
aofChanKept(aofChan) == aofChan

\* LoadAof, line 187: persister.aofChan = nil
aofChanWhileLoading(aofChan) == NilChan

\* generateAof, lines 299-301, and LoadAof, lines 186-187
LoadAofBegin ==
    /\ rewrite.pc = "load"
    /\ rewrite' = [rewrite EXCEPT !.pc = "replay", !.db = MakeAuxiliaryServer,
                                  !.aofChan = persister.aofChan,
                                  !.pos = 1, !.selectedDB = 0]
    /\ persister' = [persister EXCEPT !.aofChan = aofChanWhileLoading(persister.aofChan)]
    /\ UNCHANGED <<aofQueue, aofFile, dbSet, task, calls, frames, enq, ioErrors>>

\* SaveCmdLine for a command LoadAof replays: nothing while the field is nil,
\* else the frame is written (policy always) or the payload enqueued
SaveReplayed(p, selectedDB) ==
    IF /\ p.ok /\ p.multi /\ p.args # <<>>
       /\ persister.aofChan # NilChan
       /\ Relogged(p.args, ServerExec(dbSet, selectedDB, p.args).reply)
    THEN IF persister.aofFsync = FsyncAlways
         THEN /\ aofFile' = aofFile \o ToBytes(p.args)
              /\ UNCHANGED aofQueue
         ELSE /\ aofQueue' = Append(aofQueue, [cmdLine |-> p.args, dbIndex |-> selectedDB,
                                               call |-> 0])
              /\ UNCHANGED aofFile
    ELSE UNCHANGED <<aofQueue, aofFile>>

\* LoadAof, lines 226-255: one payload; at the end of the stream the
\* deferred function puts the channel back
LoadAofReplay ==
    /\ rewrite.pc = "replay"
    /\ LET s == LoadAofPayload(LimitReader(aofFile, rewrite.fileSize), rewrite.pos,
                               rewrite.selectedDB, dbSet, persister.currentDB)
       IN  IF s.done
           THEN /\ persister' = [persister EXCEPT !.aofChan = rewrite.aofChan]
                /\ rewrite' = [rewrite EXCEPT !.pc = "dump"]
                /\ UNCHANGED <<dbSet, aofQueue, aofFile>>
           ELSE /\ persister' = [persister EXCEPT !.currentDB = s.currentDB]
                /\ rewrite' = [rewrite EXCEPT !.pos = s.pos, !.selectedDB = s.selectedDB]
                /\ dbSet' = s.dbSet
                /\ SaveReplayed(parser0(LimitReader(aofFile, rewrite.fileSize), rewrite.pos),
                                rewrite.selectedDB)
    /\ UNCHANGED <<task, calls, frames, enq, ioErrors>>

\* the callback generateAof hands to ForEach, for the keys of one database in
\* the order of DBKeySeq: EntityToCmd, and MakeExpireCmd for a key with a TTL
DBKeySeq == <<"aa", "b">>

EntityToCmd(key, entity) == ToBytes(<<"SET", key, entity>>)
MakeExpireCmd(key, expireAt) == ToBytes(<<"PEXPIREAT", key, Itoa[expireAt]>>)

RECURSIVE EntityCmds(_, _)
EntityCmds(d, keys) ==
    IF keys = <<>> THEN <<>>
    ELSE LET key == Head(keys)
         IN  (IF d.data[key] = NilEntity THEN <<>>
              ELSE EntityToCmd(key, d.data[key])
                   \o (IF d.ttlMap[key] = NoTime THEN <<>>
                       ELSE MakeExpireCmd(key, d.ttlMap[key])))
             \o EntityCmds(d, Tail(keys))

RECURSIVE DumpFrom(_, _)
DumpFrom(dbs, i) ==
    IF i >= Databases THEN <<>>
    ELSE ToBytes(<<"SELECT", Itoa[i]>>) \o EntityCmds(dbs[i], DBKeySeq) \o DumpFrom(dbs, i + 1)

\* generateAof, lines 304-325
generateAofDump ==
    /\ rewrite.pc = "dump"
    /\ rewrite' = [rewrite EXCEPT !.pc = "idle", !.tmpFile = DumpFrom(rewrite.db, 0),
                                  !.runs = @ + 1]
    /\ UNCHANGED <<persister, aofQueue, aofFile, dbSet, task, calls, frames, enq, ioErrors>>

(***************************************************************************)
(* Persister.Close.  The writer task ranges over the channel NewPersister  *)
(* made; Close closes the channel the field aofChan holds at that moment.  *)
(***************************************************************************)
NoClose ==
    [pc |-> "idle", chanClosed |-> FALSE, finished |-> 0, fileClosed |-> FALSE, pending |-> {}]

\* Close, line 270: close(persister.aofChan) panics on a nil channel;
\* pending keeps the calls whose payload had entered the channel by then
CloseChan ==
    /\ persister.aofFsync # NoPolicy
    /\ closer.pc = "idle"
    /\ closer' = IF persister.aofChan = NilChan THEN [closer EXCEPT !.pc = "panic"]
                 ELSE [closer EXCEPT !.pc = "wait", !.chanClosed = TRUE,
                                     !.pending = Range(enq)]
    /\ UNCHANGED <<persister, aofQueue, aofFile, dbSet, task, rewrite, calls, frames, enq, ioErrors>>

\* listenCmd, lines 141-144: the range loop ends when the channel is closed
\* and empty; the send on aofFinished then waits for its receiver
listenCmdEnds ==
    /\ task[Listener].pc = "recv"
    /\ aofQueue = <<>>
    /\ closer.chanClosed
    /\ task' = [task EXCEPT ![Listener].pc = "finish"]
    /\ UNCHANGED <<persister, aofQueue, aofFile, dbSet, rewrite, calls, frames, enq, ioErrors, closer>>

\* listenCmd, line 144, meets Close, line 271, on the unbuffered aofFinished
CloseWaits ==
    /\ closer.pc = "wait"
    /\ task[Listener].pc = "finish"
    /\ task' = [task EXCEPT ![Listener].pc = "done"]
    /\ closer' = [closer EXCEPT !.pc = "closing", !.finished = @ + 1]
    /\ UNCHANGED <<persister, aofQueue, aofFile, dbSet, rewrite, calls, frames, enq, ioErrors>>

\* Close, lines 272-277: the file is closed and the ticker cancelled
CloseFile ==
    /\ closer.pc = "closing"
    /\ closer' = [closer EXCEPT !.pc = "done", !.fileClosed = TRUE]
    /\ UNCHANGED <<persister, aofQueue, aofFile, dbSet, task, rewrite, calls, frames, enq, ioErrors>>

(***************************************************************************)
(* ConcurrentDict under single-key calls.  The maps of all shards are one  *)
(* function on DictKeys (a key lives in the shard ShardOfKey gives it);    *)
(* NilEntity stands for an absent key.  A call is a record: its operation, *)
(* its position, what it returned, and what a map run one call at a time   *)
(* would have returned at the step that fixed the result (want).           *)
(***************************************************************************)
DictKeys == {"aa", "b28", "b"}
DictShards == {ShardOfKey(k) : k \in DictKeys}

NoWant == [ret |-> <<>>, new |-> NilEntity]

NoCall ==
    [op |-> "none", key |-> "", val |-> "", pc |-> "idle", ret |-> <<>>, want |-> NoWant,
     keys |-> <<>>, i |-> 0, todo |-> {}, quiet |-> TRUE]

MakeConcurrent ==
    [m |-> [k \in DictKeys |-> NilEntity],
     mutex |-> [s \in DictShards |-> FreeMutex],
     count |-> 0,
     call |-> [p \in Procs |-> NoCall]]

\* the map every call is measured against: the result of one call on a key
\* whose value is old, and the value the key has afterwards; ret <<>> where
\* the result is left open
MapSpec(op, old, val) ==
    LET present == old # NilEntity
    IN  IF op = "Put" THEN [ret |-> <<IF present THEN 0 ELSE 1>>, new |-> val]
        ELSE IF op = "PutIfAbsent"
        THEN [ret |-> <<IF present THEN 0 ELSE 1>>, new |-> IF present THEN old ELSE val]
        ELSE IF op = "PutIfExist"
        THEN [ret |-> IF present THEN <<>> ELSE <<0>>, new |-> IF present THEN val ELSE NilEntity]
        ELSE IF op = "Remove"
        THEN [ret |-> <<old, IF present THEN 1 ELSE 0>>, new |-> NilEntity]
        ELSE [ret |-> <<old, IF present THEN 1 ELSE 0>>, new |-> old]

WriterOps == {"Put", "PutIfAbsent", "PutIfExist", "Remove"}
DictOps == WriterOps \cup {"Get"}

\* a call that can change the map is in progress
WriterRuns(d) == \E p \in Procs : d.call[p].op \in WriterOps /\ d.call[p].pc \notin {"idle", "done"}

\* a task enters Get, Put, PutIfAbsent, PutIfExist or Remove; a Keys call in
\* progress has a writer beside it from then on
DictCall(p, op, key, val) ==
    /\ dict.call[p].pc \in {"idle", "done"}
    /\ dict' = [dict EXCEPT
                  !.call = [q \in Procs |->
                      IF q = p
                      THEN [NoCall EXCEPT !.op = op, !.key = key, !.val = val, !.pc = "lock"]
                      ELSE IF op \in WriterOps /\ dict.call[q].op = "Keys"
                      THEN [dict.call[q] EXCEPT !.quiet = FALSE]
                      ELSE dict.call[q]]]

\* atomic.AddInt32(&dict.count, 1) and atomic.AddInt32(&dict.count, -1)
addCount(d) == [d EXCEPT !.count = @ + 1]

decreaseCountSkipped(d) == d
decreaseCount(d) == [d EXCEPT !.count = @ - 1]

\* s.mutex.Lock() of the key's shard
shardLockIgnored(m, p) == TRUE
shardLockReady(m, p) == LockAcquireReady(m, p)

DictLock(p) ==
    LET c == dict.call[p]
        s == ShardOfKey(c.key)
    IN  /\ c.pc = "lock"
        /\ shardLockReady(dict.mutex[s], p)
        /\ dict' = [dict EXCEPT !.mutex[s] = Locked(@, p), !.call[p].pc = "body"]

\* the body of the call up to its first write to the counter or the map
DictBody(p) ==
    LET c == dict.call[p]
        old == dict.m[c.key]
        present == old # NilEntity
        want == MapSpec(c.op, old, c.val)
    IN  /\ c.pc = "body"
        /\ dict' =
             IF c.op \in {"Put", "PutIfAbsent"} /\ ~present
             THEN [addCount(dict) EXCEPT !.call[p].pc = "second"]
             ELSE IF c.op \in {"Put", "PutIfExist"} /\ present
             THEN [dict EXCEPT !.m[c.key] = c.val,
                               !.call[p].ret = <<IF c.op = "Put" THEN 0 ELSE 1>>,
                               !.call[p].want = want, !.call[p].pc = "unlock"]
             ELSE IF c.op \in {"PutIfAbsent", "PutIfExist"}
             THEN [dict EXCEPT !.call[p].ret = <<0>>,
                               !.call[p].want = want, !.call[p].pc = "unlock"]
             ELSE IF c.op = "Remove" /\ present
             THEN [dict EXCEPT !.m[c.key] = NilEntity,
                               !.call[p].ret = <<old, 1>>,
                               !.call[p].want = want, !.call[p].pc = "second"]
             ELSE [dict EXCEPT !.call[p].ret = <<old, IF present THEN 1 ELSE 0>>,
                               !.call[p].want = want, !.call[p].pc = "unlock"]

\* the second write: the store after addCount, decreaseCount after delete
DictSecond(p) ==
    LET c == dict.call[p]
    IN  /\ c.pc = "second"
        /\ dict' =
             IF c.op = "Remove"
             THEN [decreaseCount(dict) EXCEPT !.call[p].pc = "unlock"]
             ELSE [dict EXCEPT !.m[c.key] = c.val, !.call[p].ret = <<1>>,
                               !.call[p].want = MapSpec(c.op, dict.m[c.key], c.val),
                               !.call[p].pc = "unlock"]

\* the deferred s.mutex.Unlock(), and the return
DictUnlock(p) ==
    LET c == dict.call[p]
        s == ShardOfKey(c.key)
    IN  /\ c.pc = "unlock"
        /\ dict' = [dict EXCEPT !.mutex[s] = Unlocked(@, p), !.call[p].pc = "done"]

\* Len: atomic.LoadInt32(&dict.count)
DictLen(p) ==
    /\ dict.call[p].pc \in {"idle", "done"}
    /\ dict' = [dict EXCEPT !.call[p] =
                  [NoCall EXCEPT !.op = "Len", !.ret = <<dict.count>>, !.pc = "done"]]

\* Keys, up to ForEach: a slice of Len() empty strings, and i := 0
EmptyStrings(n) == [j \in 1..n |-> ""]

KeysBegin(p) ==
    /\ dict.call[p].pc \in {"idle", "done"}
    /\ dict' = [dict EXCEPT !.call[p] =
                  [NoCall EXCEPT !.op = "Keys", !.pc = "each",
                                 !.keys = EmptyStrings(dict.count), !.i = 0,
                                 !.todo = DictShards, !.quiet = ~WriterRuns(dict)]]

\* the consumer Keys hands to ForEach, run on the keys of one shard in the
\* order the map yields them: keys[i] = key while i < len(keys), else append;
\* nothing changes i
RECURSIVE KeysConsumer(_, _, _)
KeysConsumer(keys, i, order) ==
    IF order = <<>> THEN keys
    ELSE KeysConsumer(IF i < Len(keys) THEN [keys EXCEPT ![i + 1] = Head(order)]
                      ELSE Append(keys, Head(order)),
                      i, Tail(order))

\* the orders a range over the map of shard s can take
Orders(d, s) ==
    LET present == {k \in DictKeys : ShardOfKey(k) = s /\ d.m[k] # NilEntity}
    IN  {q \in SeqsUpTo(present, Cardinality(present)) :
            Len(q) = Cardinality(present) /\ Range(q) = present}

\* ForEach, one shard of the table, in table order: RLock, the range over
\* the shard's map, RUnlock
KeysShard(p, order) ==
    LET c == dict.call[p]
        s == CHOOSE t \in c.todo : \A u \in c.todo : t <= u
    IN  /\ c.pc = "each"
        /\ c.todo # {}
        /\ RLockReady(dict.mutex[s])
        /\ order \in Orders(dict, s)
        /\ dict' = [dict EXCEPT !.call[p].keys = KeysConsumer(c.keys, c.i, order),
                                !.call[p].todo = c.todo \ {s},
                                !.call[p].pc = IF c.todo = {s} THEN "done" ELSE "each"]

(***************************************************************************)
(* The RESP parser on bytes.  A byte is a one-character string, a message  *)
(* a sequence of bytes.  A reply is a record of its kind with the field    *)
(* that kind uses; NilArg stands for a nil argument of a multi-bulk reply. *)
(***************************************************************************)
CR == "\r"
LF == "\n"
CRLF == <<CR, LF>>
Digits == <<"0", "1", "2", "3", "4", "5", "6", "7", "8", "9">>
NilArg == <<"NIL">>

\* strconv.Itoa / strconv.FormatInt(n, 10)
RECURSIVE FormatInt(_)
FormatInt(n) ==
    IF n < 0 THEN <<"-">> \o FormatInt(-n)
    ELSE IF n < 10 THEN <<Digits[n + 1]>>
    ELSE FormatInt(n \div 10) \o <<Digits[(n % 10) + 1]>>

\* strconv.ParseInt(s, 10, 64): the value, or 0 and an error
DigitValue(c) == CHOOSE d \in 0..9 : Digits[d + 1] = c

RECURSIVE ParseDigits(_, _)
ParseDigits(s, acc) ==
    IF s = <<>> THEN acc ELSE ParseDigits(Tail(s), 10 * acc + DigitValue(Head(s)))

ParseIntBytes(s) ==
    LET signed == s # <<>> /\ Head(s) \in {"-", "+"}
        body == IF signed THEN Tail(s) ELSE s
        ok == body # <<>> /\ \A j \in 1..Len(body) : body[j] \in Range(Digits)
    IN  [ok |-> ok,
         val |-> IF ~ok THEN 0
                 ELSE IF signed /\ Head(s) = "-" THEN 0 - ParseDigits(body, 0)
                 ELSE ParseDigits(body, 0)]

NoData == [kind |-> "none", text |-> <<>>, code |-> 0, args |-> <<>>]
MakeStatusReply(status) == [NoData EXCEPT !.kind = "status", !.text = status]
MakeErrReply(status) == [NoData EXCEPT !.kind = "error", !.text = status]
MakeIntReply(code) == [NoData EXCEPT !.kind = "int", !.code = code]
MakeBulkReply(arg) == [NoData EXCEPT !.kind = "bulk", !.text = arg]
MakeMultiBulkReply(args) == [NoData EXCEPT !.kind = "multi", !.args = args]
MakeNullBulkReply == [NoData EXCEPT !.kind = "nullbulk"]

\* the loop of MultiBulkReply.ToBytes
RECURSIVE ArgsToBytes(_)
ArgsToBytes(args) ==
    IF args = <<>> THEN <<>>
    ELSE (IF Head(args) = NilArg THEN <<"$", "-", "1">> \o CRLF
          ELSE <<"$">> \o FormatInt(Len(Head(args))) \o CRLF \o Head(args) \o CRLF)
         \o ArgsToBytes(Tail(args))

\* ToBytes of each kind of reply
ReplyToBytes(r) ==
    IF r.kind = "status" THEN <<"+">> \o r.text \o CRLF
    ELSE IF r.kind = "error" THEN <<"-">> \o r.text \o CRLF
    ELSE IF r.kind = "int" THEN <<":">> \o FormatInt(r.code) \o CRLF
    ELSE IF r.kind = "bulk" THEN <<"$">> \o FormatInt(Len(r.text)) \o CRLF \o r.text \o CRLF
    ELSE IF r.kind = "multi" THEN <<"*">> \o FormatInt(Len(r.args)) \o CRLF \o ArgsToBytes(r.args)
    ELSE <<"$", "-", "1">> \o CRLF

\* reader.ReadBytes('\n'): the bytes up to and including the first LF, or
\* what is left and io.EOF
ReadBytes(buf) ==
    LET at == {j \in 1..Len(buf) : buf[j] = LF}
        first == CHOOSE j \in at : \A k \in at : j <= k
    IN  IF at = {} THEN [line |-> buf, rest |-> <<>>, err |-> "EOF"]
        ELSE [line |-> SubSeq(buf, 1, first), rest |-> SubSeq(buf, first + 1, Len(buf)), err |-> "nil"]

\* io.ReadFull(reader, make([]byte, n))
ReadFull(buf, n) ==
    IF Len(buf) >= n
    THEN [body |-> SubSeq(buf, 1, n), rest |-> SubSeq(buf, n + 1, Len(buf)), err |-> "nil"]
    ELSE [body |-> buf, rest |-> <<>>, err |-> IF buf = <<>> THEN "EOF" ELSE "unexpected EOF"]

\* bytes.TrimSuffix(line, CRLF)
TrimSuffix(line) ==
    IF Len(line) >= 2 /\ SubSeq(line, Len(line) - 1, Len(line)) = CRLF
    THEN SubSeq(line, 1, Len(line) - 2) ELSE line

\* body := make([]byte, strLen+2); io.ReadFull(reader, body);
\* body[:len(body)-2], as parseBulkString and parseArray both do: make
\* panics on a negative length, the slice expression on a negative bound
readBody(strLen, buf) ==
    LET n == strLen + 2
        r == ReadFull(buf, n)
    IN  IF n < 0 THEN [st |-> "panic", err |-> "nil", body |-> <<>>, rest |-> buf]
        ELSE IF r.err # "nil" THEN [st |-> "err", err |-> r.err, body |-> <<>>, rest |-> r.rest]
        ELSE IF n < 2 THEN [st |-> "panic", err |-> "nil", body |-> <<>>, rest |-> r.rest]
        ELSE [st |-> "ok", err |-> "nil", body |-> SubSeq(r.body, 1, n - 2), rest |-> r.rest]

parseBulkString(line, buf) == readBody(ParseIntBytes(Tail(line)).val, buf)

\* the loop of parseArray: left elements to read, lines read so far
RECURSIVE parseArrayLoop(_, _, _)
parseArrayLoop(left, buf, lines) ==
    LET h == ReadBytes(buf)
        b == readBody(ParseIntBytes(SubSeq(h.line, 2, Len(h.line) - 2)).val, h.rest)
    IN  IF left <= 0 THEN [st |-> "ok", err |-> "nil", lines |-> lines, rest |-> buf]
        ELSE IF h.err # "nil" THEN [st |-> "err", err |-> h.err, lines |-> lines, rest |-> h.rest]
        ELSE IF Len(h.line) < 3 THEN [st |-> "panic", err |-> "nil", lines |-> lines, rest |-> h.rest]
        ELSE IF b.st # "ok" THEN [st |-> b.st, err |-> b.err, lines |-> lines, rest |-> b.rest]
        ELSE parseArrayLoop(left - 1, b.rest, Append(lines, b.body))

parseArrayBytes(header, buf) == parseArrayLoop(ParseIntBytes(Tail(header)).val, buf, <<>>)

\* bytes.Split(line, " ")
RECURSIVE SplitSpace(_, _)
SplitSpace(line, word) ==
    IF line = <<>> THEN <<word>>
    ELSE IF Head(line) = " " THEN <<word>> \o SplitSpace(Tail(line), <<>>)
    ELSE SplitSpace(Tail(line), Append(word, Head(line)))

\* what the parser sends on the channel
DataPayload(data) == [data |-> data, err |-> "nil"]
ErrPayload(err) == [data |-> NoData, err |-> err]

\* the stream before ParseStream: nothing to read, nothing sent
NoStream == [pc |-> "idle", sent |-> <<>>, buf |-> <<>>, out |-> <<>>]

RECURSIVE Concat(_)
Concat(msgs) == IF msgs = <<>> THEN <<>> ELSE Head(msgs) \o Concat(Tail(msgs))

\* ParseStream on a reader holding the encodings of replies
ParseStream(replies) ==
    /\ stream.pc = "idle"
    /\ stream' = [pc |-> "run", sent |-> replies,
                  buf |-> Concat([j \in 1..Len(replies) |-> ReplyToBytes(replies[j])]),
                  out |-> <<>>]

\* one turn of the loop of parser0 on stream s
Emit(s, payload, rest) == [s EXCEPT !.out = Append(@, payload), !.buf = rest]
EmitAndClose(s, err, rest) == [s EXCEPT !.out = Append(@, ErrPayload(err)), !.buf = rest, !.pc = "closed"]
Panic(s, rest) == [s EXCEPT !.buf = rest, !.pc = "panic"]

parser0Turn(s) ==
    LET r == ReadBytes(s.buf)
        line == TrimSuffix(r.line)
        int == ParseIntBytes(Tail(line))
        bulk == parseBulkString(line, r.rest)
        array == parseArrayBytes(line, r.rest)
        \* parseArray sends a protocol error for a header that is no number
        \* and goes on with no elements
        t == IF ParseIntBytes(Tail(line)).ok THEN s
             ELSE [s EXCEPT !.out = Append(@, ErrPayload("protocol error"))]
    IN  IF r.err # "nil" THEN EmitAndClose(s, r.err, r.rest)
        ELSE IF line = <<>> THEN Panic(s, r.rest)
        ELSE IF Head(line) = "+" THEN Emit(s, DataPayload(MakeStatusReply(Tail(line))), r.rest)
        ELSE IF Head(line) = "-" THEN Emit(s, DataPayload(MakeErrReply(Tail(line))), r.rest)
        ELSE IF Head(line) = ":"
        THEN IF int.ok THEN Emit(s, DataPayload(MakeIntReply(int.val)), r.rest)
             ELSE Emit(s, ErrPayload("protocol error"), r.rest)
        ELSE IF Head(line) = "$"
        THEN IF bulk.st = "ok" THEN Emit(s, DataPayload(MakeBulkReply(bulk.body)), bulk.rest)
             ELSE IF bulk.st = "err" THEN EmitAndClose(s, bulk.err, bulk.rest)
             ELSE Panic(s, bulk.rest)
        ELSE IF Head(line) = "*"
        THEN IF array.st = "ok" THEN Emit(t, DataPayload(MakeMultiBulkReply(array.lines)), array.rest)
             ELSE IF array.st = "err" THEN EmitAndClose(t, array.err, array.rest)
             ELSE Panic(t, array.rest)
        ELSE Emit(s, DataPayload(MakeMultiBulkReply(SplitSpace(line, <<>>))), r.rest)

parser0Bytes ==
    /\ stream.pc = "run"
    /\ stream' = parser0Turn(stream)

(***************************************************************************)
(* Connections and connPool.  A Connection here carries every field Close  *)
(* touches; the pool holds the objects Put into it, and Get hands out one  *)
(* of them or what New builds.                                             *)
(***************************************************************************)
flagSlave == 1
flagMaster == 2
MaxPooled == 1

\* &Connection{}: the zero value of every field
ZeroConnection ==
    [flags |-> 0, subs |-> {}, password |-> "", queue |-> <<>>, watching |-> <<>>,
     txErrors |-> <<>>, selectedDB |-> 0]

Subscribe(c, channel) == [c EXCEPT !.subs = @ \cup {channel}]
SetPassword(c, password) == [c EXCEPT !.password = password]
SelectDB(c, index) == [c EXCEPT !.selectedDB = index]
SetSlave(c) == [c EXCEPT !.flags = BitOr(@, flagSlave)]
IsSlave(c) == BitAnd(c.flags, flagSlave) > 0
SetMaster(c) == [c EXCEPT !.flags = BitOr(@, flagMaster)]
IsMaster(c) == BitAnd(c.flags, flagMaster) > 0

\* the pool with nothing Put in it and no connection handed out
NoPool == [free |-> {}, open |-> FALSE, c |-> ZeroConnection, pooled |-> FALSE, used |-> FALSE]

\* MakeConn: connPool.Get() hands out a pooled object, or New's when it
\* takes none from the pool
MakeConn ==
    /\ ~pool.open
    /\ \/ pool' = [pool EXCEPT !.open = TRUE, !.c = ZeroConnection, !.pooled = FALSE, !.used = FALSE]
       \/ \E o \in pool.free :
             pool' = [pool EXCEPT !.free = @ \ {o}, !.open = TRUE, !.c = o,
                                  !.pooled = TRUE, !.used = FALSE]

\* a method of the connection in use
ConnUses(after) ==
    /\ pool.open
    /\ pool' = [pool EXCEPT !.c = after, !.used = TRUE]

\* Close: the fields it resets, then connPool.Put(c); the pool may drop
\* what it is given
ClosedConnection(c) ==
    [c EXCEPT !.subs = {}, !.password = "", !.queue = <<>>, !.watching = <<>>,
              !.txErrors = <<>>, !.selectedDB = 0]

ConnectionClose ==
    /\ pool.open
    /\ pool' = [pool EXCEPT
                  !.open = FALSE, !.c = ZeroConnection, !.pooled = FALSE, !.used = FALSE,
                  !.free = IF Cardinality(@) < MaxPooled THEN @ \cup {ClosedConnection(pool.c)} ELSE @]

(***************************************************************************)
(* The TCP server and the protocol handler.  Per connection: the socket,   *)
(* the handler task's position in Handle, the parser task's position, the  *)
(* commands that arrived and are not read yet, the payload the parser      *)
(* holds for the channel, and what was written back.  log records, per     *)
(* connection and in order, each command handed to Exec and each reply     *)
(* written, panicked the commands whose executor panicked.                 *)
(***************************************************************************)
Closers == {"S", "M"}       \* the shutdown task and ListenAndServe's defer
NoHold == [kind |-> "none", id |-> 0, cmdLine |-> <<>>]
IdleClose == [pc |-> "idle", snap |-> {}, visited |-> {}]
UnknownErr == <<"-ERR unknown">>

NoServer ==
    [listener |-> "open", closing |-> FALSE, active |-> {},
     sock |-> [c \in Conns |-> "none"],
     hpc |-> [c \in Conns |-> "none"],
     ppc |-> [c \in Conns |-> "none"],
     arrived |-> [c \in Conns |-> <<>>],
     hold |-> [c \in Conns |-> NoHold],
     cur |-> [c \in Conns |-> NoHold],
     result |-> [c \in Conns |-> <<>>],
     out |-> [c \in Conns |-> <<>>],
     nsent |-> [c \in Conns |-> 0],
     wait |-> 0, main |-> "accept", signalled |-> FALSE, shut |-> "idle",
     hc |-> [t \in Closers |-> IdleClose], dbCloses |-> 0,
     late |-> {}, log |-> [c \in Conns |-> <<>>], panicked |-> [c \in Conns |-> {}]]

\* listener.Accept() returns a connection; waitDone.Add(1); go Handle
Accept(c) ==
    /\ srv.main = "accept"
    /\ srv.listener = "open"
    /\ srv.sock[c] = "none"
    /\ srv' = [srv EXCEPT !.sock[c] = "open", !.wait = @ + 1, !.hpc[c] = "check"]

\* Handle: if h.closing.Load() { conn.Close(); return }
HandleCheck(c) ==
    /\ srv.hpc[c] = "check"
    /\ srv' = IF srv.closing
              THEN [srv EXCEPT !.sock[c] = "closed", !.hpc[c] = "exit"]
              ELSE [srv EXCEPT !.hpc[c] = "store"]

\* Handle: client := NewConn(conn); activeConn.Store(client); ParseStream
HandleStore(c) ==
    /\ srv.hpc[c] = "store"
    /\ srv' = [srv EXCEPT !.active = @ \cup {c}, !.hpc[c] = "recv", !.ppc[c] = "read",
                          !.late = IF srv.closing THEN @ \cup {c} ELSE @]

\* the client sends a command, or goes away
ClientSendsCmd(c, cmdLine) ==
    /\ srv.sock[c] = "open"
    /\ srv' = [srv EXCEPT !.nsent[c] = @ + 1,
                          !.arrived[c] = Append(@, [kind |-> "cmd", id |-> srv.nsent[c] + 1,
                                                    cmdLine |-> cmdLine])]

ClientDisconnects(c) ==
    /\ srv.sock[c] = "open"
    /\ srv' = [srv EXCEPT !.sock[c] = "eof"]

\* a read of the socket fails with an error that is neither the end of the
\* stream nor the error of a closed connection
ClientBreaks(c) ==
    /\ srv.sock[c] = "open"
    /\ srv' = [srv EXCEPT !.sock[c] = "broken"]

\* parser0: the next message off the socket, or the error of the read
ParserRead(c) ==
    /\ srv.ppc[c] = "read"
    /\ IF srv.sock[c] = "closed"
       THEN srv' = [srv EXCEPT !.hold[c] = [NoHold EXCEPT !.kind = "closed"], !.ppc[c] = "send"]
       ELSE IF srv.arrived[c] # <<>>
       THEN srv' = [srv EXCEPT !.hold[c] = Head(srv.arrived[c]), !.arrived[c] = Tail(@),
                               !.ppc[c] = "send"]
       ELSE IF srv.sock[c] = "broken"
       THEN srv' = [srv EXCEPT !.hold[c] = [NoHold EXCEPT !.kind = "err"], !.ppc[c] = "send"]
       ELSE /\ srv.sock[c] = "eof"
            /\ srv' = [srv EXCEPT !.hold[c] = [NoHold EXCEPT !.kind = "EOF"], !.ppc[c] = "send"]

\* Handle: payload := <-ch; on an error of the connection closeClient and
\* return, else hand the command to Exec
rangeAnywhere(pc) == pc \in {"recv", "write"}
rangeAtLoopHead(pc) == pc = "recv"

HandleRecv(c) ==
    /\ rangeAtLoopHead(srv.hpc[c])
    /\ srv.ppc[c] = "send"
    /\ srv' = IF srv.hold[c].kind = "cmd"
              THEN [srv EXCEPT !.cur[c] = srv.hold[c], !.hold[c] = NoHold,
                               !.ppc[c] = "read", !.hpc[c] = "exec"]
              ELSE IF srv.hold[c].kind = "err"
              THEN [srv EXCEPT !.hold[c] = NoHold, !.ppc[c] = "done", !.hpc[c] = "errwrite"]
              ELSE [srv EXCEPT !.hold[c] = NoHold, !.ppc[c] = "done",
                               !.sock[c] = "closed", !.active = @ \ {c}, !.hpc[c] = "exit"]

\* Handle, on an error that is not the end of the stream: the error reply is
\* written; when the write fails closeClient and return, else continue, and
\* the range over the channel the parser has closed ends and Handle returns
HandleErrWrite(c, written) ==
    /\ srv.hpc[c] = "errwrite"
    /\ srv' = IF written
              THEN [srv EXCEPT !.out[c] = Append(@, <<"-ERR read">>), !.hpc[c] = "exit"]
              ELSE [srv EXCEPT !.sock[c] = "closed", !.active = @ \ {c}, !.hpc[c] = "exit"]

\* db.Exec to execNormalCommand's db.RWLocks(write, read)
HandleExec(c) ==
    LET cmdLine == srv.cur[c].cmdLine
        keys == prepare(ToLower(cmdLine[1]), Tail(cmdLine))
    IN  /\ srv.hpc[c] = "exec"
        /\ RWLocksEnter(c, keys[1], keys[2])
        /\ srv' = [srv EXCEPT !.hpc[c] = "lock",
                              !.log[c] = Append(@, <<"exec", srv.cur[c].id>>)]

HandleLocks(c) ==
    /\ srv.hpc[c] = "lock"
    /\ RWLocksStep(c)
    /\ UNCHANGED srv

\* the executor under its locks: it returns a reply, or panics; the panic
\* runs the deferred RWUnLocks and is recovered by the facade's Exec, which
\* returns nil
recover(panic) == <<>>

\* defer db.RWUnLocks(write, read): a deferred call runs when the function
\* returns and when it panics
DeferOnReturnOnly(panics) == ~panics
DeferRuns(panics) == TRUE

HandleRun(c, panics) ==
    LET r == ServerExec(dbSet, 0, srv.cur[c].cmdLine)
        result == IF panics THEN recover(<<"panic">>) ELSE r.reply
    IN  /\ srv.hpc[c] = "lock"
        /\ lpc[c] = "held"
        /\ dbSet' = IF panics THEN dbSet ELSE r.dbSet
        /\ IF DeferRuns(panics)
           THEN /\ RWUnLocksEnter(c)
                /\ srv' = [srv EXCEPT !.result[c] = result, !.panicked[c] = IF panics THEN @ \cup {srv.cur[c].id} ELSE @,
                                      !.hpc[c] = IF UnlockIndices(c) = <<>> THEN "write" ELSE "unlock"]
           ELSE /\ UNCHANGED lockVars
                /\ srv' = [srv EXCEPT !.result[c] = result, !.panicked[c] = IF panics THEN @ \cup {srv.cur[c].id} ELSE @,
                                      !.hpc[c] = "write"]

HandleUnlocks(c) ==
    /\ srv.hpc[c] = "unlock"
    /\ RWUnLocksStep(c)
    /\ srv' = [srv EXCEPT !.hpc[c] = IF li[c] = Len(UnlockIndices(c)) THEN "write" ELSE @]

\* Handle: client.Write(result.ToBytes()), or -ERR unknown for a nil result
HandleWrite(c) ==
    LET bytes == IF srv.result[c] # <<>> THEN srv.result[c] ELSE UnknownErr
    IN  /\ srv.hpc[c] = "write"
        /\ srv' = [srv EXCEPT !.out[c] = Append(@, bytes), !.hpc[c] = "recv",
                              !.log[c] = Append(@, <<"write", srv.cur[c].id>>)]

\* the handler task ends: the deferred waitDone.Done()
HandleExit(c) ==
    /\ srv.hpc[c] = "exit"
    /\ srv' = [srv EXCEPT !.hpc[c] = "gone", !.wait = @ - 1]

\* the signal reaches the shutdown task: <-closeChan
Signal ==
    /\ ~srv.signalled
    /\ srv' = [srv EXCEPT !.signalled = TRUE, !.shut = "listener"]

\* the shutdown task: listener.Close()
ShutListener ==
    /\ srv.shut = "listener"
    /\ srv' = [srv EXCEPT !.listener = "closed", !.shut = "handler"]

\* Handler.Close by task t: h.closing.Store(true), and Range begins
CloserRuns(t) == IF t = "S" THEN srv.shut = "handler" ELSE srv.main = "defer"

HandlerCloseBegins(t) ==
    /\ CloserRuns(t)
    /\ srv.hc[t].pc = "idle"
    /\ srv' = [srv EXCEPT !.closing = TRUE,
                          !.hc[t] = [pc |-> "range", snap |-> srv.active, visited |-> {}]]

\* Range calls client.Close() on an entry: one stored before Range began,
\* or one stored since
HandlerCloseVisits(t, c) ==
    /\ srv.hc[t].pc = "range"
    /\ c \in srv.active \ srv.hc[t].visited
    /\ srv' = [srv EXCEPT !.sock[c] = "closed", !.hc[t].visited = @ \cup {c}]

\* Range ends once every entry that was there when it began was visited or
\* deleted; then h.db.Close() and the return
HandlerCloseEnds(t) ==
    /\ srv.hc[t].pc = "range"
    /\ (srv.hc[t].snap \cap srv.active) \subseteq srv.hc[t].visited
    /\ srv' = [srv EXCEPT !.hc[t].pc = "done", !.dbCloses = @ + 1,
                          !.shut = IF t = "S" THEN "done" ELSE @,
                          !.main = IF t = "M" THEN "returned" ELSE @]

\* ListenAndServe: Accept fails on the closed listener, break
AcceptFails ==
    /\ srv.main = "accept"
    /\ srv.listener = "closed"
    /\ srv' = [srv EXCEPT !.main = "wait"]

\* ListenAndServe: waitDone.Wait() returns, the deferred listener.Close()
WaitReturns ==
    /\ srv.main = "wait"
    /\ srv.wait = 0
    /\ srv' = [srv EXCEPT !.main = "defer", !.listener = "closed"]

(***************************************************************************)
(* The time wheel.  A time.Duration is a number of half seconds, so that   *)
(* intervals and delays below one second and between whole seconds exist.  *)
(* A task is known by the number of its list element: tasks[id] holds the  *)
(* task and its element (slot and inList are the element's list), with     *)
(* step, addedAt, cancelled and ranBy kept for the properties only, like   *)
(* actor and op (who took the last step) and beside (the driver has served *)
(* a case while a scan was under way).                                     *)
(* A slot list is the sequence of the elements in it.  scans[i] is the     *)
(* task started by the i-th tick's `go tw.scanAndRunTask(l)`.              *)
(***************************************************************************)
Second == 2

\* the keys jobs are added under: one name and the empty key
TwKeys == {"k", ""}

NoTimeWheel ==
    [made |-> FALSE, interval |-> 0, slotNum |-> 0, currentPos |-> 0,
     slots |-> <<>>, timer |-> [k \in TwKeys |-> 0], tasks |-> <<>>,
     scans |-> <<>>, crashed |-> FALSE, actor |-> "none",
     op |-> <<"none">>, beside |-> FALSE, place |-> <<>>]

\* initSlots: one empty list per slot; slot p is slots[p + 1]
initSlots(slotNum) == [p \in 1..slotNum |-> <<>>]

\* New returns nil for an interval or a slot number that is not positive
New(interval, slotNum) ==
    IF interval <= 0 \/ slotNum <= 0 THEN NoTimeWheel
    ELSE [NoTimeWheel EXCEPT !.made = TRUE, !.interval = interval,
                             !.slotNum = slotNum, !.slots = initSlots(slotNum)]

\* int(d.Seconds()) for a duration that is not negative
Seconds(d) == d \div Second

\* the division by intervalSeconds panics when the interval is below one
\* second
getPositionAndCircle(w, d) ==
    LET delaySeconds == Seconds(d)
        intervalSeconds == Seconds(w.interval)
    IN  IF intervalSeconds = 0 THEN [panic |-> TRUE, pos |-> 0, circle |-> 0]
        ELSE [panic |-> FALSE,
              circle |-> (delaySeconds \div intervalSeconds) \div w.slotNum,
              pos |-> (w.currentPos + delaySeconds \div intervalSeconds) % w.slotNum]

\* container/list: Front, Next and Remove.  Remove clears the element's
\* list, and Next of an element that is in no list is nil (0).
Front(l) == IF l = <<>> THEN 0 ELSE Head(l)

IndexIn(l, e) == CHOOSE j \in 1..Len(l) : l[j] = e

ListNext(w, e) ==
    IF ~w.tasks[e].inList THEN 0
    ELSE LET l == w.slots[w.tasks[e].slot + 1]
             j == IndexIn(l, e)
         IN  IF j = Len(l) THEN 0 ELSE l[j + 1]

ListRemove(w, slot, e) ==
    IF w.tasks[e].inList /\ w.tasks[e].slot = slot
    THEN [w EXCEPT !.slots[slot + 1] = SelectSeq(@, LAMBDA x : x # e),
                   !.tasks[e].inList = FALSE]
    ELSE w

removeTask(w, key) ==
    IF w.timer[key] = 0 THEN w
    ELSE LET e == w.timer[key]
         IN  [ListRemove(w, w.tasks[e].slot, e) EXCEPT !.timer[key] = 0]

addTask(w, delay, key) ==
    LET pc == getPositionAndCircle(w, delay)
        e == Len(w.tasks) + 1
        pushed == [w EXCEPT !.slots[pc.pos + 1] = Append(@, e),
                            !.tasks = Append(@, [key |-> key, circle |-> pc.circle,
                                                 slot |-> pc.pos, inList |-> TRUE,
                                                 step |-> Seconds(delay) \div Seconds(w.interval),
                                                 addedAt |-> Len(w.scans),
                                                 cancelled |-> FALSE, ranBy |-> <<>>])]
        removed == IF key # "" /\ pushed.timer[key] # 0 THEN removeTask(pushed, key)
                   ELSE pushed
    IN  IF pc.panic THEN [w EXCEPT !.crashed = TRUE]
        ELSE [removed EXCEPT !.timer[key] = e]

\* the tick takes the list of the current slot, advances and starts the scan
tickHandler(w) ==
    [w EXCEPT !.currentPos = IF @ = w.slotNum - 1 THEN 0 ELSE @ + 1,
              !.scans = Append(@, [l |-> w.currentPos, e |-> 0, pc |-> "front"])]

\* a task that waits to run, and the tasks under a key a remove or a new add
\* cancels: cancelled records that the driver has processed the request
Waiting(w, e) == w.tasks[e].inList /\ w.tasks[e].ranBy = <<>>

Cancelling(w, key) ==
    [e \in DOMAIN w.tasks |->
        IF key # "" /\ w.tasks[e].key = key /\ w.tasks[e].ranBy = <<>>
        THEN [w.tasks[e] EXCEPT !.cancelled = TRUE] ELSE w.tasks[e]]

(***************************************************************************)
(* start: the driver task takes one case of its select at a time.  AddJob  *)
(* and RemoveJob send on unbuffered channels, so a call and the driver's   *)
(* receive are one step; AddJob with a negative delay and RemoveJob with   *)
(* the empty key return before the send.                                   *)
(***************************************************************************)
WheelRuns == tw.made /\ ~tw.crashed

ScanUnderWay(w) == \E i \in DOMAIN w.scans : w.scans[i].pc # "done"

Served(w, op) ==
    [w EXCEPT !.actor = "driver", !.op = op, !.beside = @ \/ ScanUnderWay(tw)]

DriverTicks ==
    /\ WheelRuns
    /\ tw' = Served(tickHandler(tw), <<"tick">>)

AddJob(delay, key) ==
    /\ WheelRuns
    /\ delay >= 0
    /\ LET w == [tw EXCEPT !.tasks = Cancelling(tw, key)]
       IN  tw' = Served(addTask(w, delay, key), <<"add", key>>)

RemoveJob(key) ==
    /\ WheelRuns
    /\ key # ""
    /\ LET w == [tw EXCEPT !.tasks = Cancelling(tw, key)]
       IN  tw' = Served(removeTask(w, key), <<"remove", key>>)

(***************************************************************************)
(* scanAndRunTask, in the task the tick started for it.  One step reads    *)
(* l.Front(); each later step is one turn of the loop on the element e it  *)
(* holds: decrement and move on, or start the job, unlink the element and  *)
(* delete the key from the timer.                                          *)
(***************************************************************************)
ScanEnds(sc) == IF sc.e = 0 THEN [sc EXCEPT !.pc = "done"] ELSE sc

ScanFront(i) ==
    /\ WheelRuns
    /\ i \in DOMAIN tw.scans
    /\ tw.scans[i].pc = "front"
    /\ tw' = [tw EXCEPT !.scans[i] = ScanEnds([@ EXCEPT !.pc = "loop",
                                                  !.e = Front(tw.slots[tw.scans[i].l + 1])]),
                        !.actor = "scan", !.op = <<"front", i>>]

ScanLoop(i) ==
    /\ WheelRuns
    /\ i \in DOMAIN tw.scans
    /\ tw.scans[i].pc = "loop"
    /\ LET sc == tw.scans[i]
           e == sc.e
           t == tw.tasks[e]
           next == ListNext(tw, e)
       IN  IF t.circle > 0
           THEN tw' = [tw EXCEPT !.tasks[e].circle = @ - 1,
                                 !.scans[i] = ScanEnds([@ EXCEPT !.e = next]),
                                 !.actor = "scan", !.op = <<"skip", e>>]
           ELSE LET started == [tw EXCEPT !.tasks[e].ranBy = Append(@, i)]
                    unlinked == ListRemove(started, sc.l, e)
                    deleted == IF t.key # "" THEN [unlinked EXCEPT !.timer[t.key] = 0]
                               ELSE unlinked
                IN  tw' = [deleted EXCEPT !.scans[i] = ScanEnds([@ EXCEPT !.e = next]),
                                          !.actor = "scan", !.op = <<"run", e>>]

\* the placement alone, for a wheel New accepts at a position its ticks reach
Places(interval, slotNum, currentPos, d) ==
    LET w == [New(interval, slotNum) EXCEPT !.currentPos = currentPos]
    IN  tw' = [NoTimeWheel EXCEPT
                 !.place = <<[interval |-> interval, slotNum |-> slotNum,
                              currentPos |-> currentPos, d |-> d,
                              at |-> getPositionAndCircle(w, d)]>>]

(***************************************************************************)
(* Connection.Write and Connection.Close on one connection.  Writers are   *)
(* the tasks that call Write: the handler of the connection and a task     *)
(* that publishes to it.  WaitWithTimeout starts a waiter task that calls  *)
(* Wait and then sends on a channel; the caller takes that or the timer.   *)
(* late and cut are kept for the properties: late[w] says that w entered   *)
(* Write after Close was called, cut that the socket was closed without a  *)
(* timeout while a Write was under way, cutEarly the same for a Write that *)
(* had begun before Close was called.                                      *)
(***************************************************************************)
Writers == {"H", "P"}

NoSending ==
    [count |-> 0, wpc |-> [w \in Writers |-> "idle"], late |-> [w \in Writers |-> FALSE],
     writes |-> 0, cpc |-> "idle", waiter |-> "none", timedOut |-> FALSE,
     sockClosed |-> FALSE, cut |-> FALSE, cutEarly |-> FALSE]

InWrite(sd) == {w \in Writers : sd.wpc[w] = "writing"}

\* Write, lines 70-73: an empty slice returns at once, else sendingData.Add(1)
WriteBegins(w, len) ==
    /\ sending.wpc[w] = "idle"
    /\ sending' = IF len = 0 THEN [sending EXCEPT !.writes = @ + 1]
                  ELSE [sending EXCEPT !.count = @ + 1, !.wpc[w] = "writing",
                                       !.late[w] = sending.cpc # "idle",
                                       !.writes = @ + 1]

\* Write, lines 77-78: c.conn.Write returns, then the deferred Done
WriteEnds(w) ==
    /\ sending.wpc[w] = "writing"
    /\ sending' = [sending EXCEPT !.count = @ - 1, !.wpc[w] = "idle"]

\* Close, line 83, and WaitWithTimeout up to its select
ConnCloseBegins ==
    /\ sending.cpc = "idle"
    /\ sending' = [sending EXCEPT !.cpc = "select", !.waiter = "wait"]

\* an immediate return of Wait, whatever the counter
waitReturnsAtOnce(count) == TRUE

\* sync.WaitGroup.Wait returns when the counter is zero
waitReturns(count) == count = 0

\* the waiter task: w.Wait(), then c <- struct{}{}
WaiterSends ==
    /\ sending.waiter = "wait"
    /\ waitReturns(sending.count)
    /\ sending' = [sending EXCEPT !.waiter = "sent"]

\* the select of WaitWithTimeout: the waiter's message, or the timer
WaitWithTimeout(timeout) ==
    /\ sending.cpc = "select"
    /\ timeout \/ sending.waiter = "sent"
    /\ sending' = [sending EXCEPT !.cpc = "close", !.timedOut = timeout]

\* Close, line 84: c.conn.Close()
SocketCloses ==
    /\ sending.cpc = "close"
    /\ sending' = [sending EXCEPT
                     !.cpc = "closed", !.sockClosed = TRUE,
                     !.cut = ~sending.timedOut /\ InWrite(sending) # {},
                     !.cutEarly = ~sending.timedOut
                                  /\ \E w \in InWrite(sending) : ~sending.late[w]]

(***************************************************************************)
(* The lock map under Lock, Locks, RLocks and RWLocks with their unlocking *)
(* counterparts.  A caller is in one call at a time: op is the locking     *)
(* method, W and R its keys, i its position in the loop.  The table has    *)
(* the entries the keys hash to and the entries at the head of the table.  *)
(***************************************************************************)
MapOps == {"Lock", "Locks", "RLocks", "RWLocks"}

\* `for index := range indices`: the positions of the slice, from 0
rangeIndex(indices) == [j \in 1..Len(indices) |-> j - 1]

\* `for _, index := range indices`: the elements of the slice
rangeValue(indices) == indices

MapEntries == {ShardOfKey(key) : key \in LockKeys} \cup (0 .. (MaxLockKeys - 1))

NoMapCall == [op |-> "none", pc |-> "idle", W |-> <<>>, R |-> <<>>, i |-> 1]

NoLockMap ==
    [table |-> [index \in MapEntries |-> FreeMutex],
     call |-> [p \in Conns |-> NoMapCall]]

\* the table entries the loop of a call visits, in order; the unlocking
\* method visits the same ones
Walked(c) ==
    IF c.op = "Lock" THEN <<ShardOfKey(c.W[1])>>
    ELSE IF c.op = "Locks" THEN rangeIndex(toLockIndices(c.W, FALSE))
    ELSE rangeValue(toLockIndices(c.W \o c.R, FALSE))

\* mu.Lock() rather than mu.RLock() at an entry
InWriteMode(c, index) ==
    \/ c.op \in {"Lock", "Locks"}
    \/ c.op = "RWLocks" /\ index \in writeIndexSet(c.W)

MapCall(p, op, W, R) ==
    /\ lockMap.call[p].pc = "idle"
    /\ LET c == [op |-> op, pc |-> "locking", W |-> W, R |-> R, i |-> 1]
       IN  lockMap' = [lockMap EXCEPT !.call[p] =
                          IF Walked(c) = <<>> THEN [c EXCEPT !.pc = "held"] ELSE c]

MapLockStep(p) ==
    LET c == lockMap.call[p]
        index == Walked(c)[c.i]
        mu == lockMap.table[index]
        next == IF c.i = Len(Walked(c)) THEN [c EXCEPT !.pc = "held"]
                ELSE [c EXCEPT !.i = @ + 1]
    IN  /\ c.pc = "locking"
        /\ IF InWriteMode(c, index)
           THEN /\ LockAcquireReady(mu, p)
                /\ lockMap' = [lockMap EXCEPT !.table[index] = Locked(mu, p),
                                              !.call[p] = next]
           ELSE /\ RLockReady(mu)
                /\ lockMap' = [lockMap EXCEPT !.table[index] = RLocked(mu, p),
                                              !.call[p] = next]

\* UnLock, UnLocks, RUnLocks and RWUnLocks: one entry per step
MapUnlockStep(p) ==
    LET c == lockMap.call[p]
        first == c.pc = "held"
        i == IF first THEN 1 ELSE c.i
    IN  /\ c.pc \in {"held", "unlocking"}
        /\ IF Walked(c) = <<>>
           THEN lockMap' = [lockMap EXCEPT !.call[p] = NoMapCall]
           ELSE LET index == Walked(c)[i]
                    mu == lockMap.table[index]
                    freed == IF InWriteMode(c, index) THEN Unlocked(mu, p)
                             ELSE RUnlocked(mu, p)
                IN  lockMap' = [lockMap EXCEPT
                                   !.table[index] = freed,
                                   !.call[p] = IF i = Len(Walked(c)) THEN NoMapCall
                                               ELSE [c EXCEPT !.pc = "unlocking", !.i = i + 1]]

(***************************************************************************)
(* SpecLock: every task calls RWLocks with arbitrary key lists (overlaps   *)
(* and duplicates included), then RWUnLocks with the same lists, for ever. *)
(***************************************************************************)
LockShards == {ShardOfKey(k) : k \in LockKeys}

LockArgs ==
    {<<W, R>> \in SeqsUpTo(CallerKeys, MaxLockKeys) \X SeqsUpTo(CallerKeys, MaxLockKeys) :
        Len(W) + Len(R) <= MaxLockKeys}

InitLock ==
    /\ mutex = [s \in LockShards |-> FreeMutex]
    /\ lpc = [p \in Procs |-> "idle"]
    /\ wkeys = [p \in Procs |-> <<>>]
    /\ rkeys = [p \in Procs |-> <<>>]
    /\ li = [p \in Procs |-> 1]
    /\ db = makeDB
    /\ wheel = [k \in DBKeys |-> NoTime]
    /\ clock = 0
    /\ conn = [c \in Conns |-> NewConnection]
    /\ reply = [to |-> NoOne, tokens |-> <<>>]
    /\ exec = [p \in Procs |-> IdleExec]
    /\ dirty = [c \in Conns |-> FALSE]
    /\ persister = NoPersister
    /\ aofQueue = <<>>
    /\ aofFile = <<>>
    /\ dbSet = MakeAuxiliaryServer
    /\ task = [t \in AofTasks |-> IdleTask]
    /\ rewrite = NoRewrite
    /\ calls = <<>>
    /\ frames = <<>>
    /\ enq = <<>>
    /\ ioErrors = 0
    /\ closer = NoClose
    /\ dict = MakeConcurrent
    /\ stream = NoStream
    /\ pool = NoPool
    /\ srv = NoServer
    /\ tw = NoTimeWheel
    /\ sending = NoSending
    /\ lockMap = NoLockMap

\* the key lists of the expiration job: RWLocks([]string{key}, nil)
JobArgs == {<<(<<k>>), (<<>>)>> : k \in LockKeys}

ArgsOf(p) == IF p = "T" THEN JobArgs ELSE LockArgs

CallerLocks ==
    /\ \E p \in Procs : \E a \in ArgsOf(p) : RWLocksEnter(p, a[1], a[2])
    /\ UNCHANGED <<dbVars, aofVars, auxVars>>

CallerLockStep ==
    /\ \E p \in Procs : RWLocksStep(p)
    /\ UNCHANGED <<dbVars, aofVars, auxVars>>

CallerUnlocks ==
    /\ \E p \in Procs : RWUnLocksEnter(p)
    /\ UNCHANGED <<dbVars, aofVars, auxVars>>

\* one iteration of RWUnLocks; after the last one the task is idle again
CallerUnlockStep ==
    \E p \in Procs :
        /\ RWUnLocksStep(p)
        /\ exec' = [exec EXCEPT ![p] = IF li[p] = Len(UnlockIndices(p)) THEN IdleExec ELSE @]
        /\ UNCHANGED <<db, wheel, clock, conn, reply, dirty, aofVars, auxVars>>

NextLock == CallerLocks \/ CallerLockStep \/ CallerUnlocks \/ CallerUnlockStep

vars == <<lockVars, dbVars, aofVars, auxVars>>

SpecLock == InitLock /\ [][NextLock]_vars

(***************************************************************************)
(* SpecDB: two client connections send commands to one database while the  *)
(* time wheel runs expiration jobs and the clock advances.  X uses         *)
(* transactions; Y sends plain commands, some of them malformed.           *)
(***************************************************************************)
ControlNames == {"multi", "exec", "discard", "watch"}

ClientCmds(c) ==
    IF c = "X"
    THEN {<<"MULTI">>, <<"EXEC">>, <<"DISCARD">>, <<"WATCH", "aa">>,
          <<"SET", "aa", "x">>, <<"GET", "b">>, <<"FOO">>}
    ELSE {<<"SET", "aa", "y">>, <<"GET", "b">>, <<"PEXPIREAT", "aa", "0">>}

\* the flagMulti bit of a connection
TxFlagSet(c) == (conn[c].flags \div flagMulti) % 2 = 1

\* a client queues at most MaxQueue commands, and no second unknown one
Admissible(c, cmdLine) ==
    (TxFlagSet(c) /\ ToLower(cmdLine[1]) \notin ControlNames)
        => /\ Len(conn[c].queue) < MaxQueue
           /\ ToLower(cmdLine[1]) \notin DOMAIN cmdTable => conn[c].txErrors = <<>>

InitDB == InitLock

ClientSends ==
    /\ \E c \in Conns : \E cmdLine \in ClientCmds(c) :
          Admissible(c, cmdLine) /\ Exec(c, cmdLine)
    /\ UNCHANGED <<aofVars, auxVars>>

\* SpecTTL: both connections send plain commands on one key with a TTL
TtlCmds(c) ==
    IF c = "X" THEN {<<"SET", "aa", "x">>, <<"GET", "aa">>}
    ELSE {<<"GET", "aa">>, <<"PEXPIREAT", "aa", "0">>, <<"DEL", "aa", "b">>}

ClientSendsTtl ==
    /\ (\E c \in Conns : \E cmdLine \in TtlCmds(c) : Exec(c, cmdLine))
    /\ UNCHANGED <<aofVars, auxVars>>

WatchCheck == (\E c \in Conns : WatchCheckStep(c)) /\ UNCHANGED <<aofVars, auxVars>>
Executor == (\E p \in Conns : ExecutorStep(p)) /\ UNCHANGED <<aofVars, auxVars>>
ExpireJob == (\E key \in DBKeys : ExpireJobFires(key)) /\ UNCHANGED <<aofVars, auxVars>>

NextDB ==
    \/ ClientSends
    \/ CallerLockStep
    \/ WatchCheck
    \/ Executor
    \/ CallerUnlockStep
    \/ ExpireJob
    \/ ExpireJobStep
    \/ Tick

SpecDB == InitDB /\ [][NextDB]_vars

NextTTL ==
    \/ ClientSendsTtl
    \/ CallerLockStep
    \/ Executor
    \/ CallerUnlockStep
    \/ ExpireJob
    \/ ExpireJobStep
    \/ Tick

SpecTTL == InitDB /\ [][NextTTL]_vars

\* SpecEntity: one caller uses the data-access methods of DB directly, in
\* any order and on any key, while the job that Expire hands to the time
\* wheel runs under the key's lock
EntityTimes == 0 .. MaxClock
entityOthers == <<lockVars, clock, conn, reply, exec, dirty, aofVars, auxVars>>

PutsEntity ==
    /\ \E key \in DBKeys : db' = PutEntity(db, key, "x")
    /\ UNCHANGED <<wheel, entityOthers>>

RemovesEntity ==
    /\ \E key \in DBKeys : db' = Remove(db, key)
    /\ UNCHANGED <<wheel, entityOthers>>

ExpiresEntity ==
    /\ \E key \in DBKeys : \E expireTime \in EntityTimes :
          /\ db' = Expire(db, key, expireTime)
          /\ wheel' = At(wheel, key, expireTime)
    /\ UNCHANGED entityOthers

PersistsEntity ==
    /\ \E key \in DBKeys :
          /\ db' = Persist(db, key)
          /\ wheel' = Cancel(wheel, key)
    /\ UNCHANGED entityOthers

FlushesEntities ==
    /\ db' = Flush(db)
    /\ UNCHANGED <<wheel, entityOthers>>

GetsEntity ==
    /\ \E key \in DBKeys : db' = GetEntity(db, key, clock).db
    /\ UNCHANGED <<wheel, entityOthers>>

NextEntity ==
    \/ PutsEntity
    \/ RemovesEntity
    \/ ExpiresEntity
    \/ PersistsEntity
    \/ FlushesEntities
    \/ GetsEntity
    \/ ExpireJob
    \/ CallerLockStep
    \/ ExpireJobStep
    \/ CallerUnlockStep
    \/ Tick

SpecEntity == InitDB /\ [][NextEntity]_vars

\* SpecMap: two callers of the lock map, each in any of its locking methods
\* with keys that share a table entry and keys that do not
mapOthers == <<lockVars, dbVars, aofVars, dict, stream, pool, srv, tw, sending>>
MapKeyLists == SeqsUpTo(LockKeys, MaxLockKeys)

MapCalls ==
    /\ \E p \in Conns : \E op \in MapOps : \E W, R \in MapKeyLists :
          /\ op = "Lock" => Len(W) = 1
          /\ op # "RWLocks" => R = <<>>
          /\ Len(W) + Len(R) <= MaxLockKeys
          /\ MapCall(p, op, W, R)
    /\ UNCHANGED mapOthers

MapLockSteps == (\E p \in Conns : MapLockStep(p)) /\ UNCHANGED mapOthers
MapUnlockSteps == (\E p \in Conns : MapUnlockStep(p)) /\ UNCHANGED mapOthers

NextMap ==
    \/ MapCalls
    \/ MapLockSteps
    \/ MapUnlockSteps

SpecMap == InitDB /\ [][NextMap]_vars

\* SpecArity: unknown names, known names with too few and too many
\* arguments, in upper, lower and mixed case, beside commands that run
ArityCmds(c) ==
    IF c = "X"
    THEN {<<"FOO", "aa">>, <<"SET", "aa">>, <<"Set", "aa", "x">>, <<"GET", "aa", "b">>}
    ELSE {<<"get", "aa">>, <<"DEL">>, <<"PEXPIREAT", "aa">>, <<"foo">>, <<"del", "aa">>}

ClientSendsArity ==
    /\ (\E c \in Conns : \E cmdLine \in ArityCmds(c) : Exec(c, cmdLine))
    /\ UNCHANGED <<aofVars, auxVars>>

NextArity ==
    \/ ClientSendsArity
    \/ CallerLockStep
    \/ Executor
    \/ CallerUnlockStep

SpecArity == InitDB /\ [][NextArity]_vars

\* SpecExpire: one key gets a deadline, a later deadline, a value without
\* deadline and a delete, while the expiration job waits for the key's lock
ExpireCmds(c) ==
    IF c = "X" THEN {<<"SET", "aa", "x">>, <<"PEXPIREAT", "aa", "1">>}
    ELSE {<<"PEXPIREAT", "aa", "0">>, <<"DEL", "aa">>}

ClientSendsExpire ==
    /\ (\E c \in Conns : \E cmdLine \in ExpireCmds(c) : Exec(c, cmdLine))
    /\ UNCHANGED <<aofVars, auxVars>>

NextExpire ==
    \/ ClientSendsExpire
    \/ CallerLockStep
    \/ Executor
    \/ CallerUnlockStep
    \/ ExpireJob
    \/ ExpireJobStep
    \/ Tick

SpecExpire == InitDB /\ [][NextExpire]_vars

(***************************************************************************)
(* SpecAof: two clients write to the databases and call SaveCmdLine, the   *)
(* writer task drains the channel, writes can fail, and a rewrite session  *)
(* runs beside them.  X writes key "aa" and Y key "b": the key locks keep   *)
(* two commands on one key apart.  In SpecReplay one client makes a longer *)
(* sequence of calls and no rewrite session runs.                          *)
(***************************************************************************)
AofCmds(c) ==
    IF c = "X" THEN {<<"SET", "aa", "x">>, <<"DEL", "aa">>} ELSE {<<"SET", "b", "y">>}

Construct ==
    /\ \E load \in BOOLEAN : \E fsync \in FsyncPolicies : NewPersister(load, fsync)
    /\ UNCHANGED <<lockVars, dbVars, closer, auxVars>>

ClientWrite ==
    /\ \E c \in Conns : \E dbIndex \in DbIndices : \E cmdLine \in AofCmds(c) :
          ClientWrites(c, dbIndex, cmdLine, MaxSaves)
    /\ UNCHANGED <<lockVars, dbVars, closer, auxVars>>

ClientWriteAlone ==
    /\ \E dbIndex \in DbIndices : \E cmdLine \in AofCmds("X") :
          ClientWrites("X", dbIndex, cmdLine, MaxReplaySaves)
    /\ UNCHANGED <<lockVars, dbVars, closer, auxVars>>

SaveCheck == (\E c \in Conns : SaveCmdLineCheck(c)) /\ UNCHANGED <<lockVars, dbVars, closer, auxVars>>
SaveSend == (\E c \in Conns : SaveCmdLineSend(c)) /\ UNCHANGED <<lockVars, dbVars, closer, auxVars>>
Listen == listenCmd /\ UNCHANGED <<lockVars, dbVars, closer, auxVars>>
WriteLock == (\E t \in AofTasks : writeAofLock(t)) /\ UNCHANGED <<lockVars, dbVars, closer, auxVars>>

WriteSelect ==
    /\ \E t \in AofTasks : \E ok \in WriteOutcomes : writeAofSelect(t, ok)
    /\ UNCHANGED <<lockVars, dbVars, closer, auxVars>>

WriteCommand ==
    /\ \E t \in AofTasks : \E ok \in WriteOutcomes : writeAofCommand(t, ok)
    /\ UNCHANGED <<lockVars, dbVars, closer, auxVars>>

RewriteStart == StartRewrite /\ UNCHANGED <<lockVars, dbVars, closer, auxVars>>
RewriteLoadBegin == LoadAofBegin /\ UNCHANGED <<lockVars, dbVars, closer, auxVars>>
RewriteLoadReplay == LoadAofReplay /\ UNCHANGED <<lockVars, dbVars, closer, auxVars>>
RewriteDump == generateAofDump /\ UNCHANGED <<lockVars, dbVars, closer, auxVars>>

Close == CloseChan /\ UNCHANGED <<lockVars, dbVars, auxVars>>
ListenEnds == listenCmdEnds /\ UNCHANGED <<lockVars, dbVars, auxVars>>
CloseWait == CloseWaits /\ UNCHANGED <<lockVars, dbVars, auxVars>>
CloseDone == CloseFile /\ UNCHANGED <<lockVars, dbVars, auxVars>>

NextReplay ==
    \/ Construct
    \/ ClientWriteAlone
    \/ SaveCheck
    \/ SaveSend
    \/ Listen
    \/ WriteLock
    \/ WriteSelect
    \/ WriteCommand

SpecReplay == InitDB /\ [][NextReplay]_vars

NextAof ==
    \/ Construct
    \/ ClientWrite
    \/ SaveCheck
    \/ SaveSend
    \/ Listen
    \/ WriteLock
    \/ WriteSelect
    \/ WriteCommand
    \/ RewriteStart
    \/ RewriteLoadBegin
    \/ RewriteLoadReplay
    \/ RewriteDump
    \/ Close
    \/ ListenEnds
    \/ CloseWait
    \/ CloseDone

SpecAof == InitDB /\ [][NextAof]_vars

(***************************************************************************)
(* SpecDict: two tasks call Get, Put, PutIfAbsent, PutIfExist and Remove   *)
(* on three keys, two of them in one shard and one of them common to both  *)
(* tasks, while a third task calls Len and Keys.                           *)
(***************************************************************************)
dictOthers == <<lockVars, dbVars, aofVars, stream, pool, srv, tw, sending, lockMap>>

DictOpsOf(p) == IF p = "X" THEN {"Put", "PutIfExist", "Remove"} ELSE {"PutIfAbsent", "Remove", "Get"}
DictValue(p) == IF p = "X" THEN "x" ELSE "y"

\* X calls on "aa" and "b28", which share a shard, Y on "b28" and "b"
DictKeysOf(p) == IF p = "X" THEN {"aa", "b28"} ELSE {"b28", "b"}

DictCalls ==
    /\ \E p \in Conns : \E op \in DictOpsOf(p) : \E key \in DictKeysOf(p) :
          DictCall(p, op, key, DictValue(p))
    /\ UNCHANGED dictOthers

DictLocks == (\E p \in Conns : DictLock(p)) /\ UNCHANGED dictOthers
DictBodies == (\E p \in Conns : DictBody(p)) /\ UNCHANGED dictOthers
DictSeconds == (\E p \in Conns : DictSecond(p)) /\ UNCHANGED dictOthers
DictUnlocks == (\E p \in Conns : DictUnlock(p)) /\ UNCHANGED dictOthers
DictLens == DictLen(Job) /\ UNCHANGED dictOthers
DictKeysBegin == KeysBegin(Job) /\ UNCHANGED dictOthers

DictKeysShard ==
    /\ \E order \in SeqsUpTo(DictKeys, Cardinality(DictKeys)) : KeysShard(Job, order)
    /\ UNCHANGED dictOthers

NextDict ==
    \/ DictCalls
    \/ DictLocks
    \/ DictBodies
    \/ DictSeconds
    \/ DictUnlocks
    \/ DictLens
    \/ DictKeysBegin
    \/ DictKeysShard

SpecDict == InitDB /\ [][NextDict]_vars

(***************************************************************************)
(* SpecParse: ParseStream reads the encodings of up to MaxReplies replies. *)
(***************************************************************************)
MaxReplies == 2

Replies ==
    {MakeStatusReply(<<"O", "K">>), MakeErrReply(<<"E", " ", "r">>),
     MakeIntReply(1), MakeIntReply(-1), MakeIntReply(10),
     MakeBulkReply(<<"a", CR, LF, "b">>), MakeBulkReply(<<>>),
     MakeMultiBulkReply(<<<<"S">>, <<"k", "2">>>>), MakeMultiBulkReply(<<>>),
     MakeMultiBulkReply(<<NilArg>>), MakeMultiBulkReply(<<<<"a">>, NilArg>>),
     MakeNullBulkReply}

parseOthers == <<lockVars, dbVars, aofVars, dict, pool, srv, tw, sending, lockMap>>

ParseStreams ==
    /\ \E replies \in SeqsUpTo(Replies, MaxReplies) : ParseStream(replies)
    /\ UNCHANGED parseOthers

ParserTurn == parser0Bytes /\ UNCHANGED parseOthers

NextParse ==
    \/ ParseStreams
    \/ ParserTurn

SpecParse == InitDB /\ [][NextParse]_vars

(***************************************************************************)
(* SpecPool: one client after another takes a connection with MakeConn,    *)
(* calls its setters and closes it.                                        *)
(***************************************************************************)
poolOthers == <<lockVars, dbVars, aofVars, dict, stream, srv, tw, sending, lockMap>>

PoolMakeConn == MakeConn /\ UNCHANGED poolOthers
PoolClose == ConnectionClose /\ UNCHANGED poolOthers

PoolSetMultiState ==
    /\ \E state \in BOOLEAN : ConnUses(SetMultiState(pool.c, state))
    /\ UNCHANGED poolOthers

PoolEnqueueCmd ==
    /\ pool.c.queue = <<>>
    /\ ConnUses(ConnEnqueueCmd(pool.c, <<"SET", "aa", "x">>))
    /\ UNCHANGED poolOthers

PoolWatch ==
    /\ ConnUses([pool.c EXCEPT !.watching = <<<<"aa", 0>>>>])
    /\ UNCHANGED poolOthers

PoolAddTxError ==
    /\ pool.c.txErrors = <<>>
    /\ ConnUses(AddTxError(pool.c, "ERR"))
    /\ UNCHANGED poolOthers

PoolSubscribe == ConnUses(Subscribe(pool.c, "ch")) /\ UNCHANGED poolOthers
PoolSetPassword == ConnUses(SetPassword(pool.c, "pw")) /\ UNCHANGED poolOthers
PoolSelectDB == (\E index \in DbIndices : ConnUses(SelectDB(pool.c, index))) /\ UNCHANGED poolOthers
PoolSetSlave == ConnUses(SetSlave(pool.c)) /\ UNCHANGED poolOthers
PoolSetMaster == ConnUses(SetMaster(pool.c)) /\ UNCHANGED poolOthers

NextPool ==
    \/ PoolMakeConn
    \/ PoolClose
    \/ PoolSetMultiState
    \/ PoolEnqueueCmd
    \/ PoolWatch
    \/ PoolAddTxError
    \/ PoolSubscribe
    \/ PoolSetPassword
    \/ PoolSelectDB
    \/ PoolSetSlave
    \/ PoolSetMaster

SpecPool == InitDB /\ [][NextPool]_vars

(***************************************************************************)
(* SpecServe: two connections are accepted and handled while the shutdown  *)
(* signal arrives; clients send nothing and may go away.  SpecServeFair is *)
(* the same with every step of the server taken if it stays possible.      *)
(* SpecHandle: the connections send up to MaxCmds commands each, executors *)
(* may panic, and neither a client nor the server ends a connection.       *)
(***************************************************************************)
MaxCmds == 2

srvOthers == <<lockVars, dbVars, aofVars, dict, stream, pool, tw, sending, lockMap>>
aofButDbSet == <<persister, aofQueue, aofFile, task, rewrite, calls, frames, enq, ioErrors, closer>>
srvDbOthers == <<dbVars, aofButDbSet, dict, stream, pool, tw, sending, lockMap>>

HandlerCmds(c) ==
    IF c = "X" THEN {<<"SET", "aa", "x">>, <<"DEL", "aa">>} ELSE {<<"SET", "aa", "y">>}

Accepts == (\E c \in Conns : Accept(c)) /\ UNCHANGED srvOthers
HandleChecks == (\E c \in Conns : HandleCheck(c)) /\ UNCHANGED srvOthers
HandleStores == (\E c \in Conns : HandleStore(c)) /\ UNCHANGED srvOthers
ClientGoes == (\E c \in Conns : ClientDisconnects(c)) /\ UNCHANGED srvOthers
ParserReads == (\E c \in Conns : ParserRead(c)) /\ UNCHANGED srvOthers
HandleRecvs == (\E c \in Conns : HandleRecv(c)) /\ UNCHANGED srvOthers
HandleExits == (\E c \in Conns : HandleExit(c)) /\ UNCHANGED srvOthers
Signals == Signal /\ UNCHANGED srvOthers
ShutsListener == ShutListener /\ UNCHANGED srvOthers
CloseBegins == (\E t \in Closers : HandlerCloseBegins(t)) /\ UNCHANGED srvOthers
CloseVisits == (\E t \in Closers : \E c \in Conns : HandlerCloseVisits(t, c)) /\ UNCHANGED srvOthers
CloseEnds == (\E t \in Closers : HandlerCloseEnds(t)) /\ UNCHANGED srvOthers
MainAcceptFails == AcceptFails /\ UNCHANGED srvOthers
MainWaitReturns == WaitReturns /\ UNCHANGED srvOthers

ClientCommands ==
    /\ \E c \in Conns : \E cmdLine \in HandlerCmds(c) :
          srv.nsent[c] < MaxCmds /\ ClientSendsCmd(c, cmdLine)
    /\ UNCHANGED srvOthers

HandleExecs == (\E c \in Conns : HandleExec(c)) /\ UNCHANGED <<dbVars, aofVars, dict, stream, pool, tw, sending, lockMap>>
HandleLockSteps == (\E c \in Conns : HandleLocks(c)) /\ UNCHANGED <<dbVars, aofVars, dict, stream, pool, tw, sending, lockMap>>
HandleRuns == (\E c \in Conns : \E panics \in BOOLEAN : HandleRun(c, panics)) /\ UNCHANGED srvDbOthers
HandleUnlockSteps == (\E c \in Conns : HandleUnlocks(c)) /\ UNCHANGED <<dbVars, aofVars, dict, stream, pool, tw, sending, lockMap>>
HandleWrites == (\E c \in Conns : HandleWrite(c)) /\ UNCHANGED srvOthers

ServerSteps ==
    \/ HandleChecks
    \/ HandleStores
    \/ ParserReads
    \/ HandleRecvs
    \/ HandleExits
    \/ ShutsListener
    \/ CloseBegins
    \/ CloseVisits
    \/ CloseEnds
    \/ MainAcceptFails
    \/ MainWaitReturns

NextServe ==
    \/ Accepts
    \/ ClientGoes
    \/ Signals
    \/ ServerSteps

SpecServe == InitDB /\ [][NextServe]_vars

\* SpecExit: the server of SpecServe with sockets whose read fails, and with
\* the write of the error reply succeeding or failing
SocketBreaks == (\E c \in Conns : ClientBreaks(c)) /\ UNCHANGED srvOthers
HandleErrWrites ==
    /\ \E c \in Conns : \E written \in BOOLEAN : HandleErrWrite(c, written)
    /\ UNCHANGED srvOthers

NextExit ==
    \/ Accepts
    \/ ClientGoes
    \/ SocketBreaks
    \/ Signals
    \/ ServerSteps
    \/ HandleErrWrites

SpecExit == InitDB /\ [][NextExit]_vars

SpecServeFair ==
    /\ SpecServe
    /\ WF_vars(HandleChecks) /\ WF_vars(HandleStores) /\ WF_vars(ParserReads)
    /\ WF_vars(HandleRecvs) /\ WF_vars(HandleExits) /\ WF_vars(ShutsListener)
    /\ WF_vars(CloseBegins) /\ WF_vars(CloseVisits) /\ WF_vars(CloseEnds)
    /\ WF_vars(MainAcceptFails) /\ WF_vars(MainWaitReturns)

NextHandle ==
    \/ Accepts
    \/ HandleChecks
    \/ HandleStores
    \/ ClientCommands
    \/ ParserReads
    \/ HandleRecvs
    \/ HandleExecs
    \/ HandleLockSteps
    \/ HandleRuns
    \/ HandleUnlockSteps
    \/ HandleWrites

SpecHandle == InitDB /\ [][NextHandle]_vars

(***************************************************************************)
(* SpecWheel: a wheel of SlotNum slots and an interval of one second; jobs *)
(* are added under the two keys with delays of up to MaxStep intervals and *)
(* removed, while the ticks start scans that run beside the driver.        *)
(***************************************************************************)
SlotNum == 2
MaxStep == 2
MaxTasks == 2
MaxTicks == 3
TwDelays == {n * Second : n \in 0..MaxStep} \cup {-Second}

twOthers == <<lockVars, dbVars, aofVars, dict, stream, pool, srv, sending, lockMap>>

NewWheel ==
    /\ ~tw.made
    /\ tw' = New(Second, SlotNum)
    /\ UNCHANGED twOthers

WheelTicks ==
    /\ Len(tw.scans) < MaxTicks
    /\ DriverTicks
    /\ UNCHANGED twOthers

AddJobs ==
    /\ Len(tw.tasks) < MaxTasks
    /\ \E delay \in TwDelays : \E key \in TwKeys : AddJob(delay, key)
    /\ UNCHANGED twOthers

RemoveJobs == (\E key \in TwKeys : RemoveJob(key)) /\ UNCHANGED twOthers
ScanFronts == (\E i \in 1..MaxTicks : ScanFront(i)) /\ UNCHANGED twOthers
ScanLoops == (\E i \in 1..MaxTicks : ScanLoop(i)) /\ UNCHANGED twOthers

NextWheel ==
    \/ NewWheel
    \/ WheelTicks
    \/ AddJobs
    \/ RemoveJobs
    \/ ScanFronts
    \/ ScanLoops

SpecWheel == InitDB /\ [][NextWheel]_vars

\* SpecPlace: getPositionAndCircle for every interval of up to MaxInterval
\* half seconds, every wheel size and position, every delay up to MaxDelay
MaxInterval == 4
MaxSlots == 3
MaxDelay == 8

Placements ==
    /\ \E interval \in 1..MaxInterval : \E slotNum \in 1..MaxSlots :
          \E currentPos \in 0..(slotNum - 1) : \E d \in 0..MaxDelay :
             Places(interval, slotNum, currentPos, d)
    /\ UNCHANGED twOthers

NextPlace == Placements

SpecPlace == InitDB /\ [][NextPlace]_vars

(***************************************************************************)
(* SpecSend: the two writers call Write up to MaxWrites times, with and    *)
(* without bytes, while Close is called once.                              *)
(***************************************************************************)
MaxWrites == 3

sendOthers == <<lockVars, dbVars, aofVars, dict, stream, pool, srv, tw, lockMap>>

WritesBegin ==
    /\ sending.writes < MaxWrites
    /\ \E w \in Writers : \E len \in {0, 1} : WriteBegins(w, len)
    /\ UNCHANGED sendOthers

WritesEnd == (\E w \in Writers : WriteEnds(w)) /\ UNCHANGED sendOthers
CloseCalled == ConnCloseBegins /\ UNCHANGED sendOthers
WaiterWakes == WaiterSends /\ UNCHANGED sendOthers
WaitEnds == (\E timeout \in BOOLEAN : WaitWithTimeout(timeout)) /\ UNCHANGED sendOthers
SocketClosed == SocketCloses /\ UNCHANGED sendOthers

NextSend ==
    \/ WritesBegin
    \/ WritesEnd
    \/ CloseCalled
    \/ WaiterWakes
    \/ WaitEnds
    \/ SocketClosed

SpecSend == InitDB /\ [][NextSend]_vars

(***************************************************************************)
(* Which shard locks a task holds, read off its position in the loops.     *)
(***************************************************************************)
Holds(p, s) ==
    \/ lpc[p] = "locking" /\ \E i \in 1..(li[p] - 1) : LockIndices(p)[i] = s
    \/ lpc[p] = "held" /\ s \in Range(LockIndices(p))
    \/ lpc[p] = "unlocking" /\ \E i \in li[p]..Len(UnlockIndices(p)) : UnlockIndices(p)[i] = s

HoldsWrite(p, s) == Holds(p, s) /\ s \in WriteIndices(p)

StrictlyAscending(s) == \A i \in 1..(Len(s) - 1) : s[i] < s[i + 1]

\* a task inside RWLocks is not blocked at the mutex of its next index
LockStepReady(p) ==
    LET index == LockIndices(p)[li[p]]
        mu == mutex[index]
    IN  IF index \in WriteIndices(p)
        THEN LockAcquireReady(mu, p) \/ LockAnnounceReady(mu, p)
        ELSE RLockReady(mu)

\* a task between the entry of RWLocks and the end of RWUnLocks can step
Progress(p) == lpc[p] \in {"held", "unlocking"} \/ (lpc[p] = "locking" /\ LockStepReady(p))

\* C1: every caller walks distinct shard indices in strictly ascending order,
\* and no reachable state is a deadlock: whenever some caller is still inside
\* RWLocks, some caller between RWLocks and the end of RWUnLocks can step, so
\* the callers that wait are never waiting for each other in a cycle.
C1_OrderedNoDeadlock ==
    /\ \A p \in Procs : StrictlyAscending(LockIndices(p))
    /\ (\E p \in Procs : lpc[p] = "locking")
          => \E q \in Procs : lpc[q] # "idle" /\ Progress(q)

\* C1 witness: two callers passed the same two shards in opposite key order;
\* one holds both, the other waits at its first index
C1_Witness ==
    \E p, q \in Procs :
        /\ wkeys[p] = <<"b", "aa">> /\ wkeys[q] = <<"aa", "b">>
        /\ lpc[p] = "held" /\ lpc[q] = "locking" /\ li[q] = 1
        /\ ~LockStepReady(q)

\* C2: a shard that some key of a holder's writeKeys maps to is held by nobody
\* else, in either mode; only holders that reach a shard through read keys
\* alone hold it together.
C2_WritersExclusive ==
    \A p, q \in Procs : \A s \in DOMAIN mutex :
        (p # q /\ Holds(p, s) /\ Holds(q, s)) => (~HoldsWrite(p, s) /\ ~HoldsWrite(q, s))

\* C2 witness: two callers hold all their locks, share a shard in read mode,
\* and one of them holds another shard in write mode
C2_Witness ==
    \E p, q \in Procs : \E s, t \in DOMAIN mutex :
        /\ p # q /\ lpc[p] = "held" /\ lpc[q] = "held"
        /\ Holds(p, s) /\ Holds(q, s) /\ HoldsWrite(p, t)

(***************************************************************************)
(* Transactions.                                                           *)
(***************************************************************************)
\* the keys a task asked RWLocks for: those of its command, of the queued
\* commands of its EXEC, or of its expiration job
LockedKeys(p) == Range(wkeys[p]) \cup Range(rkeys[p])

\* c's EXEC has run its first queued command and not yet its last
Between(c) == exec[c].kind = "multi" /\ exec[c].pc = "run" /\ exec[c].ri > 1

\* p is inside the executor of a command, or inside an expiration job
Running(p) == lpc[p] = "held" /\ exec[p].pc = "run"

\* C3 as stated: between the first and the last queued command of a
\* transaction no other connection's command and no expiration job that
\* touches a key of the transaction's key set is executing.
C3_NoOtherCommandOnTxKeys ==
    \A c \in Conns : \A p \in Procs \ {c} :
        (Between(c) /\ Running(p)) => LockedKeys(p) \cap LockedKeys(c) = {}

\* C3 amended: EXEC holds the locks of the union of the queued commands' keys
\* (write mode for the write keys) from its first queued command to its last,
\* and meanwhile no other connection's command and no expiration job that
\* writes a key of that set, or touches a key the transaction writes, is
\* executing; commands that only read keys the transaction only reads may run.
C3_NoConflictingCommandOnTxKeys ==
    \A c \in Conns :
        Between(c) =>
            /\ \A k \in Range(QueuedKeys(exec[c].run)[1]) : HoldsWrite(c, ShardOfKey(k))
            /\ \A k \in Range(QueuedKeys(exec[c].run)[2]) : Holds(c, ShardOfKey(k))
            /\ \A p \in Procs \ {c} :
                  Running(p) => /\ Range(wkeys[p]) \cap LockedKeys(c) = {}
                                /\ LockedKeys(p) \cap Range(wkeys[c]) = {}

\* C3 witness: a transaction that wrote "aa" is between its queued commands
\* while another connection's command on "aa" waits at the shard's mutex
C3_Witness ==
    \E c \in Conns : \E p \in Procs \ {c} :
        /\ Between(c) /\ "aa" \in Range(wkeys[c])
        /\ lpc[p] = "locking" /\ ~LockStepReady(p)
        /\ "aa" \in LockedKeys(p)

\* C4: an EXEC called after another connection completed a write of a key the
\* caller watches runs none of the queued commands and returns the null array.
C4_WatchMissAborts ==
    \A c \in Conns :
        (exec[c].kind = "multi" /\ exec[c].watched) =>
            \/ exec[c].pc = "watch"
            \/ exec[c].pc = "unlock" /\ exec[c].replies = <<>> /\ exec[c].ret = NullArrayReply

\* C5: when execNormalCommand has run a write command to a non-error reply,
\* the version of each of its write keys is greater than it was at entry.
C5_WriteBumpsVersion ==
    \A p \in Conns :
        (/\ exec[p].kind = "normal" /\ exec[p].pc = "unlock"
         /\ ~isReadOnlyCommand(ToLower(exec[p].run[1][1]))
         /\ ~IsErrorReply(exec[p].ret))
            => \A k \in Range(wkeys[p]) : GetVersion(db, k) > exec[p].ver[k]

\* C6: while a connection's transaction flag is set, a command other than
\* MULTI, EXEC, DISCARD and WATCH is appended to the end of its queue, is
\* answered +QUEUED and leaves data, ttl, versions and the flag as they are;
\* the flag is cleared only by a step of the connection's EXEC or DISCARD.
C6_QueuedUntilExec ==
    [][\A c \in Conns :
          /\ \A cmdLine \in ClientCmds(c) :
                (TxFlagSet(c) /\ ToLower(cmdLine[1]) \notin ControlNames /\ Exec(c, cmdLine))
                    => /\ conn'[c].queue = Append(conn[c].queue, cmdLine)
                       /\ reply' = [to |-> c, tokens |-> QueuedReply]
                       /\ db' = db /\ wheel' = wheel
                       /\ TxFlagSet(c)'
          /\ (TxFlagSet(c) /\ ~TxFlagSet(c)')
                => \/ Exec(c, <<"EXEC">>) \/ Exec(c, <<"DISCARD">>)
                   \/ exec[c].kind = "multi"]_vars

\* C6 witness: two commands, the second one unknown to the registry, were
\* queued in a transaction and answered +QUEUED
C6_Witness ==
    /\ TxFlagSet("X")
    /\ conn["X"].queue = <<(<<"SET", "aa", "x">>), (<<"FOO">>)>>
    /\ reply = [to |-> "X", tokens |-> QueuedReply]

\* C7: a GetEntity that starts when the key is present and the clock is past
\* the instant given to Expire returns not-found.
C7_ExpiredReadsNotFound ==
    \A p \in Conns : ~exec[p].stale

(***************************************************************************)
(* The AOF file against the SaveCmdLine calls.                              *)
(***************************************************************************)
\* the frame that holds the command of a call, and where the file has it
CmdFrame(id) == [call |-> id, select |-> FALSE]
Written(id) == {i \in 1..Len(frames) : frames[i] = CmdFrame(id)}

\* the command line a frame was serialized from
FrameArgs(f) ==
    IF f.select THEN <<"SELECT", Itoa[calls[f.call].dbIndex]>> ELSE calls[f.call].cmdLine

\* the command lines the parser reads from a file
RECURSIVE ParseFile(_, _)
ParseFile(lines, pos) ==
    LET p == parser0(lines, pos)
    IN  IF ~p.ok THEN <<>>
        ELSE (IF p.multi THEN <<p.args>> ELSE <<>>) \o ParseFile(lines, p.next)

\* the file holds the frames that were written, whole and in that order
FileIsFrames == ParseFile(aofFile, 1) = [i \in 1..Len(frames) |-> FrameArgs(frames[i])]

\* no call is on its way: the channel is empty, the writer task waits, and
\* every caller has returned or is blocked for ever
Drained ==
    /\ \A c \in Conns : task[c].pc \in {"idle", "blocked"}
    /\ task[Listener].pc = "recv"
    /\ aofQueue = <<>>

\* C8: every command line passed to SaveCmdLine is appended to the AOF file
\* exactly once, under every policy and beside a rewrite session: the file
\* never holds it twice, and holds it once when no call is on its way and no
\* write has failed.
C8_SavedExactlyOnce ==
    /\ FileIsFrames
    /\ \A id \in 1..Len(calls) : Cardinality(Written(id)) <= 1
    /\ (Drained /\ ioErrors = 0) => \A id \in 1..Len(calls) : Cardinality(Written(id)) = 1

\* GET of a key, as a client of the database sees it
Get(d, key) == GetEntity(d, key, 0).entity

\* C9: when no call is on its way and no write has failed, LoadAof of the
\* file into fresh databases gives every key of every database the value the
\* databases that ran the commands give it.
C9_ReplayEqualsOriginal ==
    (Drained /\ ioErrors = 0)
        => \A i \in DbIndices : \A k \in DBKeys :
              Get(LoadAof(aofFile, 0, MakeAuxiliaryServer, 0).dbSet[i], k) = Get(dbSet[i], k)

\* C9 witness: three commands went to database 1, 0 and 1 in turn, each
\* behind a SELECT frame, and left key "aa" set in database 1 only
C9_Witness ==
    /\ Drained /\ ioErrors = 0
    /\ Len(calls) = 3 /\ Len(frames) = 6
    /\ calls[1].dbIndex = 1 /\ calls[2].dbIndex = 0 /\ calls[3].dbIndex = 1
    /\ Get(dbSet[1], "aa") = "x" /\ Get(dbSet[0], "aa") = NilEntity
    /\ calls[2].cmdLine = <<"DEL", "aa">>

\* the calls of the command frames, in file order
RECURSIVE CmdCalls(_)
CmdCalls(fs) ==
    IF fs = <<>> THEN <<>>
    ELSE (IF Head(fs).select THEN <<>> ELSE <<Head(fs).call>>) \o CmdCalls(Tail(fs))

IsPrefix(s, t) == Len(s) <= Len(t) /\ SubSeq(t, 1, Len(s)) = s

C11_GenerateAofLeavesLiveState ==
    [][(LoadAofBegin \/ LoadAofReplay \/ generateAofDump)
          => /\ dbSet' = dbSet
             /\ persister'.currentDB = persister.currentDB
             /\ persister'.aofChan = persister.aofChan]_vars

\* the first n bytes of a file, in whole lines
FirstBytes(lines, n) == IF n = 0 THEN <<>> ELSE LimitReader(lines, n)

\* keys, values and TTLs of every database after LoadAof of a file into
\* fresh databases
Replayed(lines) ==
    LET dbs == LoadAof(lines, 0, MakeAuxiliaryServer, 0).dbSet
    IN  [i \in DbIndices |-> [data |-> dbs[i].data, ttlMap |-> dbs[i].ttlMap]]

\* C12: once generateAof has returned, replaying the file it wrote gives
\* every database the keys, values and TTLs that replaying the first
\* fileSize bytes of the AOF gives it.
C12_RewrittenFileReplaysTheSame ==
    (rewrite.pc = "idle" /\ rewrite.runs > 0)
        => Replayed(rewrite.tmpFile) = Replayed(FirstBytes(aofFile, rewrite.fileSize))

\* what C13 says of a Close that got past closing the channel
CloseDrains ==
    /\ closer.finished <= 1
    /\ closer.finished = 1 => (aofQueue = <<>> /\ closer.chanClosed)
    /\ closer.pc = "wait" => task[Listener].pc \in {"recv", "w1", "w2", "w3", "finish"}
    /\ (closer.fileClosed /\ ioErrors = 0) => \A id \in closer.pending : Written(id) # {}

\* C13: Close does not panic and, while it waits, the writer task is on its
\* way to the signal; the writer task signals aofFinished at most once, and
\* only when the closed channel is empty; when the file is closed, the
\* command of every call that had entered the channel before Close is in it.
C13_CloseDrainsAndSignalsOnce == closer.pc # "panic" /\ CloseDrains

\* C14: under always, a call for which a Write failed does not return to its
\* caller like a call that was written; under everysec and no, the writer
\* task stays in its loop for as long as the channel is open.
C14_WriteErrorsSurface ==
    /\ persister.aofFsync = FsyncAlways
          => \A id \in 1..Len(calls) : calls[id].failed => calls[id].st # "returned"
    /\ (persister.aofFsync \in {FsyncEverySec, FsyncNo} /\ ~closer.chanClosed)
          => task[Listener].pc \in {"recv", "w1", "w2", "w3"}

\* the keys stored across all shards
StoredKeys == {k \in DictKeys : dict.m[k] # NilEntity}

\* C15: whenever no Put, PutIfAbsent, PutIfExist or Remove call is in
\* progress, the counter Len() reads equals the number of keys stored across
\* all shards, and the counter is never negative.
C15_LenCountsStoredKeys ==
    /\ dict.count >= 0
    /\ ~WriterRuns(dict) => dict.count = Cardinality(StoredKeys)

\* two keys are stored after a Remove took one out, no call is in progress,
\* and Len() has returned 2
C15_Witness ==
    /\ ~WriterRuns(dict)
    /\ Cardinality(StoredKeys) = 2
    /\ \E p \in Conns : dict.call[p].op = "Remove" /\ dict.call[p].pc = "done"
                          /\ dict.call[p].ret = <<"y", 1>>
    /\ dict.call[Job].op = "Len" /\ dict.call[Job].ret = <<2>>

\* keys lists each member of S exactly once
ListsExactly(keys, S) == Len(keys) = Cardinality(S) /\ Range(keys) = S

\* C16: a Keys() call beside which no writer ran returns exactly the stored
\* keys, each once: as many entries as Len(), no duplicate, and no entry
\* that is not a stored key.
C16_KeysListsStoredKeys ==
    LET c == dict.call[Job]
    IN  c.op = "Keys" /\ c.pc = "done" /\ c.quiet =>
            /\ Len(c.keys) = dict.count
            /\ ListsExactly(c.keys, StoredKeys)

\* the result of a call is fixed, and the call still holds its shard's lock
ResultFixed(c) == c.op \in DictOps /\ c.ret # <<>>
HoldsResult(c) == ResultFixed(c) /\ c.pc \in {"second", "unlock"}

\* C17: every Get, Put, PutIfAbsent, PutIfExist and Remove returns what a map
\* run one call at a time returns at the step that fixes the result, and
\* leaves the key with the value that map leaves it with: Put 1 on insert
\* and 0 on replace, PutIfAbsent 0 keeping the old value on a present key,
\* PutIfExist 0 inserting nothing on an absent key and replacing on a
\* present one, Remove (value, 1) on a hit and (nil, 0) on a miss, Get the
\* value stored last.
C17_LinearizableMap ==
    \A p \in Conns :
        LET c == dict.call[p]
        IN  /\ ResultFixed(c) /\ c.want.ret # <<>> => c.ret = c.want.ret
            /\ HoldsResult(c) => dict.m[c.key] = c.want.new

\* X replaced the value Y had put under the common key and got 0, while Y
\* read "x" back, both finished
C17_Witness ==
    /\ dict.call["X"].op = "Put" /\ dict.call["X"].key = "b28"
    /\ dict.call["X"].ret = <<0>> /\ dict.call["X"].pc = "done"
    /\ dict.call["Y"].op = "Get" /\ dict.call["Y"].key = "b28"
    /\ dict.call["Y"].ret = <<"x", 1>> /\ dict.call["Y"].pc = "done"

\* payload j on the channel is a value whose encoding is that of reply j
Echoes(j) ==
    /\ stream.out[j].err = "nil"
    /\ ReplyToBytes(stream.out[j].data) = ReplyToBytes(stream.sent[j])

\* the channel carries the replies read so far in order, then one EOF
\* payload, and is closed after it and not before
RoundTrip ==
    /\ stream.pc # "panic"
    /\ Len(stream.out) <= Len(stream.sent) + 1
    /\ \A j \in 1..Len(stream.out) : j <= Len(stream.sent) => Echoes(j)
    /\ Len(stream.out) = Len(stream.sent) + 1 =>
           stream.out[Len(stream.out)].err = "EOF" /\ stream.pc = "closed"
    /\ stream.pc = "closed" => Len(stream.out) = Len(stream.sent) + 1

FiveKinds(replies) ==
    \A j \in 1..Len(replies) : replies[j].kind \in {"status", "error", "int", "bulk", "multi"}

HasNilArg(r) == r.kind = "multi" /\ NilArg \in Range(r.args)

\* the round trip of the replies that have no nil argument
RoundTripWithoutNil ==
    /\ stream.pc # "idle"
    /\ FiveKinds(stream.sent)
    /\ \A j \in 1..Len(stream.sent) : ~HasNilArg(stream.sent[j])
    => RoundTrip

\* C18: for every sequence of status, error, integer, bulk and multi-bulk
\* replies, ParseStream on their concatenated encodings sends payloads whose
\* encodings equal the originals, in order, then one payload with Err = EOF,
\* and closes the channel after it.
C18_ParseStreamRoundTrip == stream.pc # "idle" /\ FiveKinds(stream.sent) => RoundTrip

\* reply j is a null bulk, or a multi-bulk reply with a nil argument
IsNull(r) == r.kind = "nullbulk" \/ HasNilArg(r)

\* C19: on a bulk header of length -1, at top level or inside an array, the
\* parser sends a null bulk value, does not fail, and reads the message
\* after it from that message's first byte.
C19_NullBulkParsed ==
    \A j \in 1..Len(stream.sent) :
        IsNull(stream.sent[j]) /\ (\A k \in 1..(j - 1) : ~IsNull(stream.sent[k])) =>
            /\ stream.pc # "panic"
            /\ Len(stream.out) >= j => Echoes(j)
            /\ Len(stream.out) > j /\ j < Len(stream.sent) => Echoes(j + 1)
            /\ stream.pc = "closed" => Len(stream.out) > j

\* what a connection can carry over from its last client
CarriesNoFlags(c) == ~InMultiState(c) /\ ~IsSlave(c) /\ ~IsMaster(c)

CarriesNoData(c) ==
    /\ c.queue = <<>> /\ GetWatching(c) = <<>> /\ c.txErrors = <<>>
    /\ c.subs = {} /\ c.password = "" /\ c.selectedDB = 0

HandedOutOfPool == pool.open /\ pool.pooled /\ ~pool.used

PooledCarriesNoData == HandedOutOfPool => CarriesNoData(pool.c)

\* C20: a Connection MakeConn hands out of the pool, before its new client
\* has called anything on it, is not in MULTI state, has no slave or master
\* flag, and has an empty queue, no watched keys, no transaction errors, no
\* subscriptions, no password and selected DB 0.
C20_PooledConnectionIsClean ==
    HandedOutOfPool => CarriesNoFlags(pool.c) /\ CarriesNoData(pool.c)

\* no connection was stored in the active set after closing was set
NoLateStore == srv.late = {}

\* shutdown ends in the runs in which no Handle stores its connection after
\* Close has set closing
ShutdownReturnsUnlessLate == <>(~NoLateStore) \/ (srv.signalled ~> srv.main = "returned")

\* C21: once the shutdown signal is delivered ListenAndServe returns in the
\* end: the listener is closed, Handler.Close closes every active
\* connection, every handler task exits and the wait-group reaches zero,
\* whatever the clients do.
C21_ShutdownReturns == srv.signalled ~> srv.main = "returned"

\* C22: once a call of Handler.Close has returned, no connection is in the
\* active set with its socket open: Handle either rejected the socket or
\* stored a connection that Close closed.
C22_CloseClosesEveryActive ==
    \A t \in Closers :
        srv.hc[t].pc = "done" => \A c \in srv.active : srv.sock[c] # "open"

\* event k of a connection's log: command (k+1)/2 handed to Exec for odd k,
\* its reply written for even k
InTurn(log) ==
    \A k \in 1..Len(log) :
        log[k] = <<IF k % 2 = 1 THEN "exec" ELSE "write", (k + 1) \div 2>>

Writes(log) == Cardinality({k \in 1..Len(log) : log[k][1] = "write"})

\* C23: on one connection the commands reach Exec in the order they
\* arrived, the reply of each is written before the next is executed, and
\* the replies are written in the order of the commands.
C23_CommandsInArrivalOrder ==
    \A c \in Conns :
        /\ InTurn(srv.log[c])
        /\ Len(srv.out[c]) = Writes(srv.log[c])

\* both connections had two commands executed and answered, and the DEL of
\* X found the key its SET had stored
C23_Witness ==
    /\ \A c \in Conns : Len(srv.out[c]) = MaxCmds /\ Len(srv.log[c]) = 2 * MaxCmds
    /\ srv.out["X"] = <<OkReply, IntReply(1)>>

\* a connection holds a shard lock
HoldsLock(c) == \E s \in DOMAIN mutex : mutex[s].w = c \/ c \in mutex[s].r

\* a handler task has a command to go on with, and can take a step on it
Pending(c) ==
    \/ srv.arrived[c] # <<>> \/ srv.hold[c].kind = "cmd"
    \/ srv.hpc[c] \in {"exec", "lock", "unlock", "write"}

Runnable(c) ==
    \/ srv.hpc[c] \in {"check", "store", "exec", "unlock", "write"}
    \/ srv.hpc[c] = "lock" /\ (lpc[c] = "held" \/ LockStepReady(c))
    \/ srv.hpc[c] = "recv" /\ (srv.ppc[c] = "send" \/ srv.arrived[c] # <<>>)

JobChecks(k) ==
    /\ exec[Job].kind = "job"
    /\ exec[Job].pc = "run"
    /\ exec[Job].run[1][2] = k

\* C27: the expiration job removes a key only when the key has a ttl entry
\* and the clock is past it: a key without ttl entry (after a SET without
\* deadline, or written again after a delete) and a key whose deadline was
\* replaced by a later one stay, whatever deadline the job was scheduled for.
C27_JobRemovesOnlyExpired ==
    [][\A k \in DBKeys :
          (JobChecks(k) /\ exec'[Job].pc = "unlock"
             /\ db.data[k] # NilEntity /\ db'.data[k] = NilEntity)
          => (db.ttlMap[k] # NoTime /\ clock > db.ttlMap[k])]_vars

\* the job ran on a key whose deadline, set to instant 1, was not yet past,
\* and left the key in place
C27_Witness ==
    /\ exec[Job].kind = "job"
    /\ exec[Job].pc = "unlock"
    /\ exec[Job].run[1][2] = "aa"
    /\ clock = 1
    /\ db.ttlMap["aa"] = 1
    /\ db.data["aa"] = "x"

\* the tasks that wait under a key
WaitingUnder(w, key) == {e \in DOMAIN w.tasks : w.tasks[e].key = key /\ Waiting(w, e)}

OneTaskPerKey == \A key \in TwKeys \ {""} : Cardinality(WaitingUnder(tw, key)) <= 1

\* a step starts the job of task e
Starts(e) == e \in DOMAIN tw.tasks /\ Len(tw'.tasks[e].ranBy) > Len(tw.tasks[e].ranBy)

CancelledNeverStarts == \A e \in 1..MaxTasks : Starts(e) => ~tw.tasks[e].cancelled

RemoveOfNothingChangesNothing ==
    \A key \in TwKeys :
        (tw'.op = <<"remove", key>> /\ WaitingUnder(tw, key) = {})
        => (tw'.slots = tw.slots /\ tw'.timer = tw.timer /\ tw'.tasks = tw.tasks)

\* the same as long as the driver has served no case beside a running scan
CancellationWithoutOverlap ==
    [](tw.beside \/ OneTaskPerKey)
    /\ [][tw'.beside \/ (CancelledNeverStarts /\ RemoveOfNothingChangesNothing)]_vars

\* C25: after the driver has processed RemoveJob(key) or a new AddJob under
\* the same non-empty key, the job registered before under that key never
\* starts; at most one task waits under a key; RemoveJob for a key with no
\* waiting task changes neither the slots nor the timer index nor a task.
C25_CancelByKey ==
    []OneTaskPerKey /\ [][CancelledNeverStarts /\ RemoveOfNothingChangesNothing]_vars

\* the tick that has to run task e: the (step + 1)-th after it was added
DueTick(e) == tw.tasks[e].addedAt + tw.tasks[e].step + 1

RunsOnceWhenDue(e) ==
    /\ Len(tw.tasks[e].ranBy) <= 1
    /\ tw.tasks[e].ranBy # <<>> =>
          /\ tw.tasks[e].ranBy[1] = DueTick(e)
          /\ tw.tasks[e].circle = 0
          /\ ~tw.tasks[e].inList
    /\ (DueTick(e) \in DOMAIN tw.scans /\ tw.scans[DueTick(e)].pc = "done")
          => tw.tasks[e].ranBy # <<>>
    /\ tw.tasks[e].ranBy = <<>> =>
          /\ tw.tasks[e].inList
          /\ tw.tasks[e].circle <= tw.tasks[e].step \div tw.slotNum

OutOfIndex(e) == tw.tasks[e].ranBy # <<>> => tw.timer[tw.tasks[e].key] # e

\* the same for the tasks with a key, as long as the driver has served no
\* case beside a running scan
RunsOnceWithoutOverlap ==
    tw.beside \/ \A e \in DOMAIN tw.tasks :
                    ~tw.tasks[e].cancelled
                    => RunsOnceWhenDue(e) /\ (tw.tasks[e].key # "" => OutOfIndex(e))

\* C26: a task that was never cancelled runs at most once, and only in the
\* scan of the (step + 1)-th tick after it was added, after its circle has
\* been counted down to 0; it has run when that scan is over, and it is then
\* out of its slot and out of the timer index.
C26_RunsOnceOnItsTick ==
    \A e \in DOMAIN tw.tasks :
        ~tw.tasks[e].cancelled => RunsOnceWhenDue(e) /\ OutOfIndex(e)

\* C28: once the wheel is made, every step that changes a slot list or the
\* timer index is a step of the driver task.
C28_DriverOwnsSlotsAndTimer ==
    [][(tw.made /\ (tw'.slots # tw.slots \/ tw'.timer # tw.timer))
         => tw'.actor = "driver"]_vars

\* the step count of the specification, floor(d / interval)
StepOf(p) == p.d \div p.interval

Placed(p) ==
    /\ ~p.at.panic
    /\ p.at.pos = (p.currentPos + StepOf(p)) % p.slotNum
    /\ p.at.circle = StepOf(p) \div p.slotNum
    /\ p.at.pos \in 0..(p.slotNum - 1)

\* the same for the intervals of whole seconds
PlacementForWholeSeconds ==
    \A i \in DOMAIN tw.place : tw.place[i].interval % Second = 0 => Placed(tw.place[i])

\* C29: for every delay, interval and slot number New accepts the task is
\* placed at pos = (currentPos + floor(d / interval)) mod slotNum with circle
\* = floor(d / interval) div slotNum, and pos is a slot of the wheel.
C29_PlacementFollowsDelay == \A i \in DOMAIN tw.place : Placed(tw.place[i])

\* no task is inside writeAof, and no LoadAof is under way
NoWriteInProgress ==
    /\ persister.aofFsync # NoPolicy
    /\ \A t \in AofTasks : task[t].pc \notin {"w1", "w2", "w3"}
    /\ rewrite.pc \notin {"replay"}

\* the database a replay of the whole file has selected at its end
SelectedAtEnd(lines) == LoadAof(lines, 0, MakeAuxiliaryServer, 0).currentDB

\* the same as long as no rewrite session has called LoadAof
CurrentDBWithoutRewrite ==
    (NoWriteInProgress /\ rewrite.runs = 0 /\ rewrite.pc \in {"idle", "load"})
    => persister.currentDB = SelectedAtEnd(aofFile)

\* C30: whenever no write and no LoadAof is under way, persister.currentDB
\* is the database index a replay of the whole AOF file selects at its end.
C30_CurrentDBFollowsFile ==
    NoWriteInProgress => persister.currentDB = SelectedAtEnd(aofFile)

ArityMet(arity, n) == IF arity > 0 THEN n = arity ELSE n >= -arity

Rejected(cmdLine) ==
    \/ ToLower(cmdLine[1]) \notin DOMAIN cmdTable
    \/ ~ArityMet(cmdTable[ToLower(cmdLine[1])].arity, Len(cmdLine))

ErrorFor(cmdLine) ==
    IF ToLower(cmdLine[1]) \notin DOMAIN cmdTable
    THEN UnknownCmdErrReply(ToLower(cmdLine[1]))
    ELSE ArgNumErrReply(ToLower(cmdLine[1]))

\* C32: a command with an unknown name, or with a known name in any case
\* and an argument count against its arity, is answered with its error
\* reply in the step of the call: no shard lock is taken, no executor is
\* started, data, ttl and versions stay, and an unknown name is reported
\* whatever the argument count.
C32_RejectedBeforeLocks ==
    [][\A c \in Conns : \A cmdLine \in ArityCmds(c) :
          (Rejected(cmdLine) /\ Exec(c, cmdLine))
          => /\ reply' = [to |-> c, tokens |-> ErrorFor(cmdLine)]
             /\ db' = db
             /\ exec' = exec
             /\ UNCHANGED lockVars]_vars

\* SET with a missing value was rejected after a SET in mixed case had stored
\* the key
C32_Witness ==
    /\ reply = [to |-> "X", tokens |-> ArgNumErrReply("set")]
    /\ db.data["aa"] = "x"
    /\ exec["X"].pc = "idle"

\* outside a transaction the connection has no queued command
QueueClearedWithFlag == \A c \in Conns : ~InMultiState(conn[c]) => conn[c].queue = <<>>

\* C33: a connection whose transaction has ended, by EXEC or by DISCARD,
\* holds no queued command and no recorded syntax error, so its next
\* transaction is not aborted for an error of the one before.
C33_NoTransactionStateLeft ==
    \A c \in Conns :
        ~InMultiState(conn[c]) => (conn[c].queue = <<>> /\ conn[c].txErrors = <<>>)

\* a Write that had begun before Close was called is over when the socket
\* is closed without a timeout
EarlierWritesDrained == ~sending.cutEarly

\* C34: the socket is not closed without a timeout while a Write is between
\* its Add and its Done, and no two tasks are inside the socket write of one
\* connection together.
C34_CloseWaitsForWrites ==
    /\ ~sending.cut
    /\ Cardinality(InWrite(sending)) <= 1


(***************************************************************************)
(* A key of ttlMap without an entry in data.                               *)
(***************************************************************************)
TtlWithoutData(d, key) == d.ttlMap[key] # NoTime /\ d.data[key] = NilEntity

\* A key comes to have a deadline and no value only by a step that sets the
\* deadline of a key without value and leaves data as it is: Remove, Flush,
\* the lazy removal of GetEntity and the job take the key out of both maps.
DeadlineWithoutValueOnlyByExpire ==
    [][\A key \in DBKeys :
          (TtlWithoutData(db', key) /\ ~TtlWithoutData(db, key))
              => (db'.data = db.data /\ db.ttlMap[key] = NoTime)]_vars

\* C35: whatever sequence of PutEntity, Remove, Expire, Persist, Flush and
\* GetEntity led to the state, a key that has a deadline in ttlMap and no
\* value in data loses the deadline at the next GetEntity of the key, so a
\* value put under the key after that access has no deadline.
C35_NoDeadlineLeftOver ==
    \A key \in DBKeys :
        TtlWithoutData(db, key)
            => LET accessed == GetEntity(db, key, clock).db
               IN  /\ accessed.ttlMap[key] = NoTime
                   /\ PutEntity(accessed, key, "x").ttlMap[key] = NoTime


(***************************************************************************)
(* The command a task runs under its locks, and the steps that belong to   *)
(* a read-only command or to a command answered with an error reply.       *)
(***************************************************************************)
RunningName(p) == ToLower(exec[p].run[exec[p].ri][1])

CallOfReadOnlyOrRejected ==
    \E c \in Conns : \E cmdLine \in ArityCmds(c) \cup ClientCmds(c) :
        /\ ~InMultiState(conn[c])
        /\ ToLower(cmdLine[1]) \notin ControlNames
        /\ Exec(c, cmdLine)
        /\ Rejected(cmdLine) \/ isReadOnlyCommand(ToLower(cmdLine[1]))

RunOfReadOnlyOrFailed ==
    \E p \in Conns :
        /\ ExecutorStep(p)
        /\ isReadOnlyCommand(RunningName(p)) \/ IsErrorReply(reply'.tokens)

DataChanged(key) == db'.data[key] # db.data[key]

WriteHolderOf(key) == \E p \in Procs : HoldsWrite(p, ShardOfKey(key))

\* a GET at the RemoveWithLock of its lazy removal
LazyRemover(p, key) ==
    /\ exec[p].pc = "run"
    /\ RunningName(p) = "get"
    /\ exec[p].gpc = "g3"
    /\ exec[p].run[exec[p].ri][2] = key

\* Every change of a key's entry in data is made under the write lock of the
\* key's shard, except the removal that a GET makes when it finds the key
\* expired.
OnlyLazyRemovalWithoutWriteLock ==
    [][\A key \in DBKeys :
          DataChanged(key)
              => (WriteHolderOf(key) \/ \E p \in Conns : LazyRemover(p, key))]_vars

\* C37: the entry of a key in data is put or removed only while a task holds
\* the lock of the key's shard in write mode, and no two commands that hold
\* the shard for reading are both at the removal of the same key.
C37_DataChangedUnderWriteLock ==
    /\ [][\A key \in DBKeys : DataChanged(key) => WriteHolderOf(key)]_vars
    /\ [](\A key \in DBKeys : \A p, q \in Conns :
              (LazyRemover(p, key) /\ LazyRemover(q, key)) => p = q)


(***************************************************************************)
(* The runs of Handler.Close during one shutdown.                          *)
(***************************************************************************)
CloseRuns == {t \in Closers : srv.hc[t].pc # "idle"}

\* Handler.Close is run by the shutdown task after the signal, and a second
\* time only by the deferred function of ListenAndServe, after Wait returned
SecondCloseByDefer ==
    /\ srv.hc["S"].pc # "idle" => srv.signalled
    /\ srv.hc["M"].pc # "idle" => srv.main \in {"defer", "returned"}

\* C38: during one shutdown Handler.Close is begun by one task only, and
\* h.db.Close(), which closes the persister's payload channel, is called
\* once.
C38_HandlerClosedOnce ==
    /\ Cardinality(CloseRuns) <= 1
    /\ srv.dbCloses <= 1


(***************************************************************************)
(* The connections whose Handle has returned.                              *)
(***************************************************************************)
HandleReturned(c) == srv.hpc[c] \in {"exit", "gone"}

\* A connection whose Handle returned after the end of the stream, after the
\* error of a closed connection or after a failed write is closed and out
\* of the active set: what is left open had its error reply written.
LeftOpenOnlyAfterWrittenError ==
    \A c \in Conns :
        (HandleReturned(c) /\ (c \in srv.active \/ srv.sock[c] # "closed"))
            => srv.out[c] # <<>>

\* C39: once Handle has returned for a connection, the connection is closed
\* and is not in the active set, whichever way Handle returned.
C39_ClosedAndRemovedOnReturn ==
    \A c \in Conns :
        HandleReturned(c) => (c \notin srv.active /\ srv.sock[c] = "closed")


(***************************************************************************)
(* What a caller of the lock map holds, and the keys its call covers.      *)
(***************************************************************************)
HeldCall(p) == lockMap.call[p].pc = "held"

HeldForWriting(p) == {index \in MapEntries : lockMap.table[index].w = p}

CoveredKeys(c) == Range(c.W) \cup Range(c.R)

\* A caller that holds Locks(keys...) holds the first entries of the table,
\* as many as the keys have distinct hashes, so two callers of Locks with
\* keys never hold together.
LocksTakesLeadingEntries ==
    /\ \A p \in Conns :
          (HeldCall(p) /\ lockMap.call[p].op = "Locks")
              => HeldForWriting(p) =
                    0 .. (Len(toLockIndices(lockMap.call[p].W, FALSE)) - 1)
    /\ \A p, q \in Conns :
          (/\ p # q /\ HeldCall(p) /\ HeldCall(q)
           /\ lockMap.call[p].op = "Locks" /\ lockMap.call[q].op = "Locks")
              => (lockMap.call[p].W = <<>> \/ lockMap.call[q].W = <<>>)

\* C40: a caller that holds Locks(keys...) holds for writing exactly the
\* table entries its keys hash to, and while it holds no other caller holds
\* Lock, RLocks or RWLocks with one of those keys among its keys.
C40_LocksHoldsTheKeysEntries ==
    \A p \in Conns :
        (HeldCall(p) /\ lockMap.call[p].op = "Locks")
            => /\ HeldForWriting(p) = writeIndexSet(lockMap.call[p].W)
               /\ \A q \in Conns \ {p} :
                     (HeldCall(q) /\ lockMap.call[q].op # "Locks")
                         => CoveredKeys(lockMap.call[q]) \cap Range(lockMap.call[p].W) = {}

====
